---- MODULE Spec2Model ----
(***************************************************************************)
(* Front-GraphQL: the simulated (mock) repositories for tasks and users,   *)
(* their localStorage slots, and the application handlers that drive them. *)
(*                                                                         *)
(* An optional value (a TypeScript `x?: T`, or `T | null`) is a sequence:  *)
(* Absent is undefined/null, Some(x) is the value x.                       *)
(* A Date is an integer number of seconds; an ISO-8601 string is the       *)
(* record [iso |-> s].                                                     *)
(* The field `hist` of an entity is a history field, not a field of the    *)
(* program's Todo/User: it records how the entity was made ("create" or    *)
(* "seed") and whether an update or toggle has succeeded on it.  The       *)
(* program carries it unchanged wherever it copies an entity with `...x`.  *)
(* The fields `fresh` and `handed` of a repository are history fields too: *)
(* whether the instance was constructed over an empty collection, and the  *)
(* ids it has handed out, in order.                                        *)
(* The field `left` of a store's repository and the field `seen` of what a *)
(* store action holds across its await are history fields as well: the     *)
(* slot of the simulated source as it was when the store left that source  *)
(* with nothing in flight, and the list the store had when the action      *)
(* started.                                                                *)
(***************************************************************************)
EXTENDS Integers, Sequences, FiniteSets, TLC

VARIABLES
  clock,      \* the wall clock read by `new Date()`
  todoRepo,   \* the live MockTodoRepository: [todos, nextId, fresh, handed]
  todoSlot,   \* localStorage['mock_todos']: Absent, or Some(JSON array)
  userRepo,   \* the live MockUserRepository: [users, nextId, fresh, handed]
  userSlot,   \* localStorage['mock_users']
  underTest,  \* Spec: the repository the calls are made on, "todo" or "user"
  todoStore,  \* useTodoStore's state: [todos, isLoading, error, dataSource, repository]
  userStore,  \* useUserStore's state: [users, selectedUser, isLoading, error, ...]
  timers,     \* the setTimeout callbacks of MockUserRepository not yet run
  micro,      \* the continuations of store actions whose await has settled
  net,        \* the requests of the GraphQL adapters the service has not answered
  replaced,   \* the MockUserRepository instances replaced while a callback waits
  last        \* the last call made: [op, id, ret, ok, streak, orig]

appVars == <<todoStore, userStore, timers, micro, net, replaced>>

vars == <<clock, todoRepo, todoSlot, userRepo, userSlot, underTest, appVars, last>>

-----------------------------------------------------------------------------
(* Bounds of the model *)

\* Every call that changes a collection is made one second after the one
\* before it; the model follows the first MaxCalls of them.
MaxCalls == 4

\* the store actions that may be awaiting their repository at one time
MaxInFlight == 1

\* SpecRace: the store actions that can be awaiting at once, and the time
\* until which actions are started
MaxRacing == 2

MaxRaceCalls == 3

-----------------------------------------------------------------------------
(* Optional values, dates and sequences *)

Absent == <<>>
Some(x) == <<x>>
Get(o) == o[1]

ToISOString(d) == [iso |-> d]
NewDate(s) == s.iso

\* Array.prototype.findIndex on `e => e.id === id`; 0 stands for -1
FindIndex(s, id) ==
  IF \E i \in 1..Len(s) : s[i].id = id
  THEN CHOOSE i \in 1..Len(s) : s[i].id = id /\ \A j \in 1..(i-1) : s[j].id # id
  ELSE 0

\* Array.prototype.filter on `e => e.id !== id`
FilterOutId(s, id) == SelectSeq(s, LAMBDA e : e.id # id)

\* Math.max(...ids) of a non-empty array
MathMax(S) == CHOOSE m \in S : \A x \in S : x <= m

Ids(s) == {s[i].id : i \in 1..Len(s)}

\* A slot holds a text.  The text of a JSON array is the array; a text that
\* is not one is the one-element sequence <<[json |-> kind]>>: "invalid" is
\* not JSON (JSON.parse throws), "null" and "object" are the JSON values.
NotAnArray == {"invalid", "null", "object"}

Unreadable(kind) == << <<[json |-> kind]>> >>

\* Array.isArray of what JSON.parse gives for the text
IsArray(content) == \A i \in 1..Len(content) : "json" \notin DOMAIN content[i]

\* 24 * 60 * 60 * 1000 ms, counted in seconds: the clock of the model counts
\* seconds, so that a month stays within TLC's integers
Day == 24 * 60 * 60

-----------------------------------------------------------------------------
(* MockTodoRepository *)

\* saveToLocalStorage: the spread copies every field, the dates go to ISO
TodoToJSON(todo) ==
  [todo EXCEPT !.createdAt = ToISOString(@),
               !.updatedAt = IF @ # Absent THEN Some(ToISOString(Get(@))) ELSE Absent]

MockTodo_saveToLocalStorage(todos) == Some([i \in 1..Len(todos) |-> TodoToJSON(todos[i])])

TodoFromJSON(todo) ==
  [todo EXCEPT !.createdAt = NewDate(@),
               !.updatedAt = IF @ # Absent THEN Some(NewDate(Get(@))) ELSE Absent]

\* loadFromLocalStorage: this.todos when the slot holds data, else untouched ([])
\* nextId is not touched: it keeps its initializer, 1.  JSON.parse of a text
\* that is not JSON throws, and so does `.map` of a value that is not an
\* array: the catch sets this.todos = []
MockTodo_loadFromLocalStorage(slot) ==
  IF slot # Absent /\ IsArray(Get(slot))
  THEN [i \in 1..Len(Get(slot)) |-> TodoFromJSON(Get(slot)[i])]
  ELSE <<>>

\* a constructor that does not look into the slot
MockTodo_constructor_IgnoresSlot(slot, initialTodos) ==
  [repo |-> [todos |-> initialTodos, nextId |-> 1, fresh |-> Len(initialTodos) = 0,
             handed |-> <<>>],
   slot |-> slot]

\* constructor(initialTodos): the new instance and what it leaves in the slot
MockTodo_constructor(slot, initialTodos) ==
  LET loaded == MockTodo_loadFromLocalStorage(slot)
      useInitial == Len(loaded) = 0 /\ Len(initialTodos) > 0
      todos == IF useInitial THEN initialTodos ELSE loaded
  IN [repo |-> [todos |-> todos, nextId |-> 1, fresh |-> Len(todos) = 0,
                handed |-> <<>>],
      slot |-> IF useInitial THEN MockTodo_saveToLocalStorage(todos) ELSE slot]

\* a clearLocalStorage that also puts nextId back to 1
MockTodo_clearLocalStorage_ResetsNextId(repo, slot) ==
  [repo |-> [repo EXCEPT !.todos = <<>>, !.nextId = 1], slot |-> Absent]

\* clearLocalStorage: removes the slot, empties the collection, keeps nextId
MockTodo_clearLocalStorage(repo, slot) ==
  [repo |-> [repo EXCEPT !.todos = <<>>], slot |-> Absent]

\* generateTodoSeedData(nextId) at the instant `now`; the month before `now`
\* is monthDays days long
generateTodoSeedData(nextId, now, monthDays) ==
  LET yesterday == now - Day
      lastWeek == now - 7 * Day
      lastMonth == now - monthDays * Day
      seed == [made |-> "seed", mutated |-> FALSE]
  IN << [id |-> nextId, title |-> "Revisar documentacion de GraphQL",
         completed |-> TRUE, userId |-> Some(1),
         createdAt |-> lastMonth, updatedAt |-> Some(lastWeek), hist |-> seed],
        [id |-> nextId + 1, title |-> "Configurar entorno de desarrollo",
         completed |-> TRUE, userId |-> Some(1),
         createdAt |-> lastMonth, updatedAt |-> Some(lastWeek), hist |-> seed],
        [id |-> nextId + 2, title |-> "Implementar componente TodoList",
         completed |-> TRUE, userId |-> Some(2),
         createdAt |-> lastWeek, updatedAt |-> Some(yesterday), hist |-> seed],
        [id |-> nextId + 3, title |-> "Optimizar consultas GraphQL",
         completed |-> FALSE, userId |-> Some(2),
         createdAt |-> yesterday, updatedAt |-> Absent, hist |-> seed],
        [id |-> nextId + 4, title |-> "Implementar filtros de busqueda",
         completed |-> FALSE, userId |-> Some(1),
         createdAt |-> yesterday, updatedAt |-> Absent, hist |-> seed],
        [id |-> nextId + 5, title |-> "Anadir pruebas unitarias",
         completed |-> FALSE, userId |-> Some(3),
         createdAt |-> now, updatedAt |-> Absent, hist |-> seed],
        [id |-> nextId + 6, title |-> "Mejorar estilos CSS",
         completed |-> FALSE, userId |-> Some(3),
         createdAt |-> now, updatedAt |-> Absent, hist |-> seed] >>

\* a fillWithSampleData that adds the seed set to the collection
MockTodo_fillWithSampleData_Appends(repo, slot, now, monthDays) ==
  LET seeds == generateTodoSeedData(repo.nextId, now, monthDays)
      todos == repo.todos \o seeds
  IN [repo |-> [repo EXCEPT !.todos = todos,
                            !.nextId = MathMax(Ids(seeds)) + 1,
                            !.handed = @ \o [i \in 1..Len(seeds) |-> seeds[i].id]],
      slot |-> MockTodo_saveToLocalStorage(todos)]

\* fillWithSampleData with generateSeedData: the seed set replaces the
\* collection, nextId moves past the seed ids, the collection is saved
MockTodo_fillWithSampleData(repo, slot, now, monthDays) ==
  LET todos == generateTodoSeedData(repo.nextId, now, monthDays)
      nextId == IF Len(todos) > 0 THEN MathMax(Ids(todos)) + 1 ELSE repo.nextId
  IN [repo |-> [repo EXCEPT !.todos = todos, !.nextId = nextId,
                            !.handed = @ \o [i \in 1..Len(todos) |-> todos[i].id]],
      slot |-> MockTodo_saveToLocalStorage(todos)]

\* getTodos: a copy of the collection
MockTodo_getTodos(repo) == repo.todos

\* createTodo
MockTodo_createTodo(repo, slot, input, now) ==
  LET newTodo == [id |-> repo.nextId,
                  title |-> input.title,
                  completed |-> IF input.completed # Absent
                                THEN Get(input.completed) ELSE FALSE,
                  userId |-> input.userId,
                  createdAt |-> now,
                  updatedAt |-> Absent,
                  hist |-> [made |-> "create", mutated |-> FALSE]]
      todos == Append(repo.todos, newTodo)
  IN [repo |-> [repo EXCEPT !.todos = todos, !.nextId = @ + 1,
                            !.handed = Append(@, newTodo.id)],
      slot |-> MockTodo_saveToLocalStorage(todos),
      ret |-> Some(newTodo)]

\* an updateTodo that saves the collection also when the id is missing
MockTodo_updateTodo_SavesWhenMissing(repo, slot, input, now) ==
  LET index == FindIndex(repo.todos, input.id)
      old == repo.todos[index]
      updatedTodo ==
        [old EXCEPT
           !.title = IF input.title # Absent /\ Get(input.title) # ""
                     THEN Get(input.title) ELSE @,
           !.completed = IF input.completed # Absent THEN Get(input.completed) ELSE @,
           !.userId = IF input.userId # Absent THEN input.userId ELSE @,
           !.updatedAt = Some(now),
           !.hist.mutated = TRUE]
      todos == [repo.todos EXCEPT ![index] = updatedTodo]
  IN IF index = 0
     THEN [repo |-> repo, slot |-> MockTodo_saveToLocalStorage(repo.todos),
           ret |-> Absent]
     ELSE [repo |-> [repo EXCEPT !.todos = todos],
           slot |-> MockTodo_saveToLocalStorage(todos),
           ret |-> Some(updatedTodo)]

\* updateTodo
MockTodo_updateTodo(repo, slot, input, now) ==
  LET index == FindIndex(repo.todos, input.id)
      old == repo.todos[index]
      updatedTodo ==
        [old EXCEPT
           !.title = IF input.title # Absent /\ Get(input.title) # ""
                     THEN Get(input.title) ELSE @,
           !.completed = IF input.completed # Absent THEN Get(input.completed) ELSE @,
           !.userId = IF input.userId # Absent THEN input.userId ELSE @,
           !.updatedAt = Some(now),
           !.hist.mutated = TRUE]
      todos == [repo.todos EXCEPT ![index] = updatedTodo]
  IN IF index = 0
     THEN [repo |-> repo, slot |-> slot, ret |-> Absent]
     ELSE [repo |-> [repo EXCEPT !.todos = todos],
           slot |-> MockTodo_saveToLocalStorage(todos),
           ret |-> Some(updatedTodo)]

\* deleteTodo
MockTodo_deleteTodo(repo, slot, id) ==
  LET initialLength == Len(repo.todos)
      todos == FilterOutId(repo.todos, id)
      deleted == Len(todos) # initialLength
  IN [repo |-> [repo EXCEPT !.todos = todos],
      slot |-> IF deleted THEN MockTodo_saveToLocalStorage(todos) ELSE slot,
      ok |-> deleted]

\* a toggleComplete that sets completed instead of negating it
MockTodo_toggleComplete_SetsCompleted(repo, slot, id, now) ==
  LET index == FindIndex(repo.todos, id)
      old == repo.todos[index]
      updatedTodo == [old EXCEPT !.completed = TRUE,
                                 !.updatedAt = Some(now),
                                 !.hist.mutated = TRUE]
      todos == [repo.todos EXCEPT ![index] = updatedTodo]
  IN IF index = 0
     THEN [repo |-> repo, slot |-> slot, ret |-> Absent]
     ELSE [repo |-> [repo EXCEPT !.todos = todos],
           slot |-> MockTodo_saveToLocalStorage(todos),
           ret |-> Some(updatedTodo)]

\* toggleComplete
MockTodo_toggleComplete(repo, slot, id, now) ==
  LET index == FindIndex(repo.todos, id)
      old == repo.todos[index]
      updatedTodo == [old EXCEPT !.completed = ~ @,
                                 !.updatedAt = Some(now),
                                 !.hist.mutated = TRUE]
      todos == [repo.todos EXCEPT ![index] = updatedTodo]
  IN IF index = 0
     THEN [repo |-> repo, slot |-> slot, ret |-> Absent]
     ELSE [repo |-> [repo EXCEPT !.todos = todos],
           slot |-> MockTodo_saveToLocalStorage(todos),
           ret |-> Some(updatedTodo)]

-----------------------------------------------------------------------------
(* MockUserRepository *)

\* saveToLocalStorage: JSON.stringify turns each Date into its ISO string
\* (Date.prototype.toJSON, before the replacer sees it) and drops a key
\* whose value is undefined
UserToJSON(user) ==
  [user EXCEPT !.createdAt = ToISOString(@),
               !.updatedAt = IF @ # Absent THEN Some(ToISOString(Get(@))) ELSE Absent]

MockUser_saveToLocalStorage(users) == Some([i \in 1..Len(users) |-> UserToJSON(users[i])])

\* the reviver of loadFromLocalStorage: `value ? new Date(value) : value`
UserFromJSON(user) ==
  [user EXCEPT !.createdAt = NewDate(@),
               !.updatedAt = IF @ # Absent THEN Some(NewDate(Get(@))) ELSE Absent]

\* loadFromLocalStorage: the collection, and nextId = max id + 1 when the
\* collection is not empty
\* this.users = JSON.parse(text, reviver) is assigned as it comes: a text
\* that is not JSON throws, and `null.length` throws, into the catch
\* (this.users = []); an object has no length, `undefined > 0` is false and
\* nothing throws, so that this.users stays the object
MockUser_loadFromLocalStorage(slot) ==
  LET isArray == slot # Absent /\ IsArray(Get(slot))
      users == IF slot = Absent THEN <<>>
               ELSE IF isArray
               THEN [i \in 1..Len(Get(slot)) |-> UserFromJSON(Get(slot)[i])]
               ELSE IF Get(slot)[1].json = "object" THEN Get(slot)
               ELSE <<>>
  IN [users |-> users,
      nextId |-> IF isArray /\ Len(users) > 0
                 THEN MathMax(Ids(users)) + 1 ELSE 1]

\* constructor(initialUsers)
MockUser_constructor(slot, initialUsers) ==
  LET loaded == MockUser_loadFromLocalStorage(slot)
      useInitial == Len(loaded.users) = 0 /\ Len(initialUsers) > 0
      users == IF useInitial THEN initialUsers ELSE loaded.users
  IN [repo |-> [users |-> users, nextId |-> loaded.nextId,
                fresh |-> Len(users) = 0, handed |-> <<>>],
      slot |-> IF useInitial THEN MockUser_saveToLocalStorage(users) ELSE slot]

\* generateUserSeedData(nextId) at the instant `now`
generateUserSeedData(nextId, now) ==
  LET seed == [made |-> "seed", mutated |-> FALSE]
  IN << [id |-> nextId, name |-> "Juan Perez", email |-> "juan@example.com",
         createdAt |-> now, updatedAt |-> Absent, hist |-> seed],
        [id |-> nextId + 1, name |-> "Maria Lopez", email |-> "maria@example.com",
         createdAt |-> now - Day, updatedAt |-> Absent, hist |-> seed],
        [id |-> nextId + 2, name |-> "Carlos Rodriguez",
         email |-> "carlos@example.com",
         createdAt |-> now - 2 * Day, updatedAt |-> Absent, hist |-> seed] >>

\* clearLocalStorage
MockUser_clearLocalStorage(repo, slot) ==
  [repo |-> [repo EXCEPT !.users = <<>>], slot |-> Absent]

\* fillWithSampleData with generateSeedData
MockUser_fillWithSampleData(repo, slot, now) ==
  LET users == generateUserSeedData(repo.nextId, now)
      nextId == IF Len(users) > 0 THEN MathMax(Ids(users)) + 1 ELSE repo.nextId
  IN [repo |-> [repo EXCEPT !.users = users, !.nextId = nextId,
                            !.handed = @ \o [i \in 1..Len(users) |-> users[i].id]],
      slot |-> MockUser_saveToLocalStorage(users)]

\* getUsers: what the timer callback resolves with
MockUser_getUsers(repo) == repo.users

\* getUserById: what the timer callback resolves with
MockUser_getUserById(repo, id) ==
  IF FindIndex(repo.users, id) # 0
  THEN Some(repo.users[FindIndex(repo.users, id)]) ELSE Absent

\* createUser: the body of the timer callback
MockUser_createUser(repo, slot, input, now) ==
  LET newUser == [id |-> repo.nextId,
                  name |-> input.name,
                  email |-> input.email,
                  createdAt |-> now,
                  updatedAt |-> Absent,
                  hist |-> [made |-> "create", mutated |-> FALSE]]
      users == Append(repo.users, newUser)
  IN [repo |-> [repo EXCEPT !.users = users, !.nextId = @ + 1,
                            !.handed = Append(@, newUser.id)],
      slot |-> MockUser_saveToLocalStorage(users),
      ret |-> Some(newUser)]

\* an updateUser that does not set updatedAt
MockUser_updateUser_KeepsUpdatedAt(repo, slot, input, now) ==
  LET index == FindIndex(repo.users, input.id)
      old == repo.users[index]
      updatedUser ==
        [old EXCEPT
           !.name = IF input.name # Absent THEN Get(input.name) ELSE @,
           !.email = IF input.email # Absent THEN Get(input.email) ELSE @,
           !.hist.mutated = TRUE]
      users == [repo.users EXCEPT ![index] = updatedUser]
  IN IF index = 0
     THEN [repo |-> repo, slot |-> slot, ret |-> Absent]
     ELSE [repo |-> [repo EXCEPT !.users = users],
           slot |-> MockUser_saveToLocalStorage(users),
           ret |-> Some(updatedUser)]

\* updateUser: the body of the timer callback
MockUser_updateUser(repo, slot, input, now) ==
  LET index == FindIndex(repo.users, input.id)
      old == repo.users[index]
      updatedUser ==
        [old EXCEPT
           !.name = IF input.name # Absent THEN Get(input.name) ELSE @,
           !.email = IF input.email # Absent THEN Get(input.email) ELSE @,
           !.updatedAt = Some(now),
           !.hist.mutated = TRUE]
      users == [repo.users EXCEPT ![index] = updatedUser]
  IN IF index = 0
     THEN [repo |-> repo, slot |-> slot, ret |-> Absent]
     ELSE [repo |-> [repo EXCEPT !.users = users],
           slot |-> MockUser_saveToLocalStorage(users),
           ret |-> Some(updatedUser)]

\* a deleteUser that does not save the collection
MockUser_deleteUser_NoSave(repo, slot, id) ==
  LET initialLength == Len(repo.users)
      users == FilterOutId(repo.users, id)
      deleted == initialLength > Len(users)
  IN [repo |-> [repo EXCEPT !.users = users], slot |-> slot, ok |-> deleted]

\* deleteUser: the body of the timer callback
MockUser_deleteUser(repo, slot, id) ==
  LET initialLength == Len(repo.users)
      users == FilterOutId(repo.users, id)
      deleted == initialLength > Len(users)
  IN [repo |-> [repo EXCEPT !.users = users],
      slot |-> IF deleted THEN MockUser_saveToLocalStorage(users) ELSE slot,
      ok |-> deleted]

-----------------------------------------------------------------------------
(* Inputs *)

\* the ids a caller passes to update, delete and toggleComplete
ArgIds == {1, 2, 3}

\* the days setMonth(getMonth() - 1) goes back
MonthDays == {28, 31}

CreateTodoInputs ==
  { [title |-> "a", completed |-> Absent, userId |-> Some(1)],
    [title |-> "a", completed |-> Some(TRUE), userId |-> Absent] }

UpdateTodoInputs ==
  {[id |-> i, title |-> p[1], completed |-> p[2], userId |-> p[3]] :
     i \in ArgIds,
     p \in { <<Some("b"), Absent, Absent>>,
             <<Some(""), Some(TRUE), Some(2)>> }}

CreateUserInputs == { [name |-> "n", email |-> "e"] }

\* what the forms and buttons hand to the store actions
EventIds == {1, 2}

AddTodoInputs == { [title |-> "a", completed |-> Absent, userId |-> Some(1)] }

EditTodoInputs ==
  {[id |-> i, title |-> Some("b"), completed |-> Absent, userId |-> Absent] :
     i \in EventIds}

EditUserInputs == {[id |-> i, name |-> Some("m"), email |-> Absent] : i \in EventIds}

UpdateUserInputs ==
  {[id |-> i, name |-> p[1], email |-> p[2]] :
     i \in ArgIds,
     p \in { <<Some("m"), Absent>>, <<Some(""), Some("f")>> }}

-----------------------------------------------------------------------------
(* The remote adapters.  The remote service is outside the program: an       *)
(* adapter method is modelled by what it makes of the response its one       *)
(* request gets (two requests for RestTodoRepository.toggleComplete).        *)

\* what an async method gives its caller: a value, or a rejection
Return(v) == [thrown |-> FALSE, value |-> v]
Throw(e) == [thrown |-> TRUE, value |-> e]

\* the promise of client.query / client.mutate / axios resolved with data
Resolved(data) == [ok |-> TRUE, data |-> data]

\* client.query / client.mutate rejected: an ApolloError
ApolloError == [ok |-> FALSE,
                error |-> [isAxiosError |-> FALSE, status |-> Absent,
                           message |-> "Failed to fetch"]]

\* axios rejected with a response of the given status
AxiosStatusError(status) ==
  [ok |-> FALSE,
   error |-> [isAxiosError |-> TRUE, status |-> Some(status),
              message |-> "Request failed with status code"]]

\* axios rejected without a response
AxiosNetworkError ==
  [ok |-> FALSE,
   error |-> [isAxiosError |-> TRUE, status |-> Absent, message |-> "Network Error"]]

\* reading a property of a null `data`
TypeError == [isAxiosError |-> FALSE, status |-> Absent, message |-> "TypeError"]

\* { ...e, createdAt: new Date(e.createdAt),
\*   updatedAt: e.updatedAt ? new Date(e.updatedAt) : undefined }
ParseDates(e) ==
  [e EXCEPT !.createdAt = NewDate(@),
            !.updatedAt = IF @ # Absent THEN Some(NewDate(Get(@))) ELSE Absent]

\* axios.isAxiosError(error) && error.response?.status === 404
IsNotFound(error) == error.isAxiosError /\ error.status = Some(404)

(* GraphQLTodoRepository *)

GraphQLTodo_getTodos(response) ==
  IF response.ok
  THEN Return([i \in 1..Len(response.data) |-> ParseDates(response.data[i])])
  ELSE Throw(response.error)

GraphQLTodo_getTodoById(response) ==
  IF response.ok
  THEN IF response.data = Absent
       THEN Return(Absent)
       ELSE Return(Some(ParseDates(Get(response.data))))
  ELSE Return(Absent)

GraphQLTodo_createTodo(response) ==
  IF response.ok
  THEN IF response.data = Absent
       THEN Throw([isAxiosError |-> FALSE, status |-> Absent,
                   message |-> "No se pudo crear el todo"])
       ELSE Return(ParseDates(Get(response.data)))
  ELSE Throw(response.error)

GraphQLTodo_updateTodo(response) ==
  IF response.ok
  THEN IF response.data = Absent
       THEN Return(Absent)
       ELSE Return(Some(ParseDates(Get(response.data))))
  ELSE Return(Absent)

GraphQLTodo_deleteTodo(response) ==
  IF response.ok THEN Return(response.data) ELSE Return(FALSE)

GraphQLTodo_toggleComplete(response) ==
  IF response.ok
  THEN IF response.data = Absent
       THEN Return(Absent)
       ELSE Return(Some(ParseDates(Get(response.data))))
  ELSE Return(Absent)

(* GraphQLUserRepository: no method catches *)

GraphQLUser_getUsers(response) ==
  IF response.ok
  THEN Return([i \in 1..Len(response.data) |-> ParseDates(response.data[i])])
  ELSE Throw(response.error)

GraphQLUser_getUserById(response) ==
  IF response.ok
  THEN IF response.data = Absent
       THEN Return(Absent)
       ELSE Return(Some(ParseDates(Get(response.data))))
  ELSE Throw(response.error)

GraphQLUser_createUser(response) ==
  IF response.ok
  THEN IF response.data = Absent
       THEN Throw(TypeError)
       ELSE Return(ParseDates(Get(response.data)))
  ELSE Throw(response.error)

GraphQLUser_updateUser(response) ==
  IF response.ok
  THEN IF response.data = Absent
       THEN Return(Absent)
       ELSE Return(Some(ParseDates(Get(response.data))))
  ELSE Throw(response.error)

GraphQLUser_deleteUser(response) ==
  IF response.ok THEN Return(response.data) ELSE Throw(response.error)

(* RestTodoRepository: every method but createTodo catches every error *)

RestTodo_getTodos(response) ==
  IF response.ok
  THEN Return([i \in 1..Len(response.data) |-> ParseDates(response.data[i])])
  ELSE Return(<<>>)

RestTodo_getTodoById(response) ==
  IF response.ok
  THEN IF response.data = Absent
       THEN Return(Absent)
       ELSE Return(Some(ParseDates(Get(response.data))))
  ELSE Return(Absent)

RestTodo_createTodo(response) ==
  IF response.ok
  THEN IF response.data = Absent
       THEN Throw(TypeError)
       ELSE Return(ParseDates(Get(response.data)))
  ELSE Throw(response.error)

RestTodo_updateTodo(response) ==
  IF response.ok
  THEN IF response.data = Absent
       THEN Return(Absent)
       ELSE Return(Some(ParseDates(Get(response.data))))
  ELSE Return(Absent)

RestTodo_deleteTodo(response) ==
  IF response.ok THEN Return(TRUE) ELSE Return(FALSE)

\* GET /todos/{id} through getTodoById, then PATCH /todos/{id}
RestTodo_toggleComplete(getResponse, patchResponse) ==
  IF RestTodo_getTodoById(getResponse).value = Absent
  THEN Return(Absent)
  ELSE IF patchResponse.ok
       THEN IF patchResponse.data = Absent
            THEN Return(Absent)
            ELSE Return(Some(ParseDates(Get(patchResponse.data))))
       ELSE Return(Absent)

(* RestUserRepository: 404 is "not found", every other error is rethrown *)

RestUser_getUsers(response) ==
  IF response.ok
  THEN Return([i \in 1..Len(response.data) |-> ParseDates(response.data[i])])
  ELSE Throw(response.error)

RestUser_getUserById(response) ==
  IF response.ok
  THEN IF response.data = Absent
       THEN Throw(TypeError)
       ELSE Return(Some(ParseDates(Get(response.data))))
  ELSE IF IsNotFound(response.error) THEN Return(Absent) ELSE Throw(response.error)

RestUser_createUser(response) ==
  IF response.ok
  THEN IF response.data = Absent
       THEN Throw(TypeError)
       ELSE Return(ParseDates(Get(response.data)))
  ELSE Throw(response.error)

RestUser_updateUser(response) ==
  IF response.ok
  THEN IF response.data = Absent
       THEN Throw(TypeError)
       ELSE Return(Some(ParseDates(Get(response.data))))
  ELSE IF IsNotFound(response.error) THEN Return(Absent) ELSE Throw(response.error)

RestUser_deleteUser(response) ==
  IF response.ok
  THEN Return(TRUE)
  ELSE IF IsNotFound(response.error) THEN Return(FALSE) ELSE Throw(response.error)

\* the JSON of an entity as the remote service sends it
TodoPayloads ==
  { [id |-> 1, title |-> "a", completed |-> FALSE, userId |-> Absent,
     createdAt |-> ToISOString(0), updatedAt |-> Absent],
    [id |-> 2, title |-> "b", completed |-> TRUE, userId |-> Some(1),
     createdAt |-> ToISOString(0), updatedAt |-> Some(ToISOString(1))] }

UserPayloads ==
  { [id |-> 1, name |-> "n", email |-> "e",
     createdAt |-> ToISOString(0), updatedAt |-> Absent],
    [id |-> 2, name |-> "m", email |-> "f",
     createdAt |-> ToISOString(0), updatedAt |-> Some(ToISOString(1))] }

\* the `data` of a response: an entity or null, or a list of entities
TodoData == {Absent} \cup {Some(t) : t \in TodoPayloads}
UserData == {Absent} \cup {Some(u) : u \in UserPayloads}
TodoListData ==
  {<<>>} \cup {<<t>> : t \in TodoPayloads}
    \cup {l \in TodoPayloads \X TodoPayloads : l[1].id < l[2].id}
UserListData ==
  {<<>>} \cup {<<u>> : u \in UserPayloads}
    \cup {l \in UserPayloads \X UserPayloads : l[1].id < l[2].id}

\* what Apollo can answer: data, or a rejection
GraphQLResponses(Data) == {Resolved(d) : d \in Data} \cup {ApolloError}

\* what axios can answer: data, an error status, or no response at all
RestResponses(Data) ==
  {Resolved(d) : d \in Data}
    \cup {AxiosStatusError(404), AxiosStatusError(500), AxiosNetworkError}

-----------------------------------------------------------------------------
(* useTodoStore and useUserStore *)

\* the state the stores are created with
\* a reference to a repository object: the n-th one the store constructed
RepositoryRef(kind, inst) == [kind |-> kind, inst |-> inst, left |-> <<>>]

TodoStore_initial ==
  [todos |-> <<>>, isLoading |-> FALSE, error |-> Absent,
   dataSource |-> "mock", repository |-> RepositoryRef("mock", 0)]

UserStore_initial ==
  [users |-> <<>>, selectedUser |-> Absent, isLoading |-> FALSE, error |-> Absent,
   dataSource |-> "mock", repository |-> RepositoryRef("mock", 0)]

AppInit ==
  /\ todoStore = TodoStore_initial
  /\ userStore = UserStore_initial
  /\ timers = <<>>
  /\ micro = <<>>
  /\ net = <<>>
  /\ replaced = <<>>

\* set({ isLoading: true, error: null }), before the repository is awaited
Store_begin(store) == [store EXCEPT !.isLoading = TRUE, !.error = Absent]

\* a fetchTodos that adds the fetched list to the one it has
TodoStore_fetchTodos_then_Merges(store, todos) ==
  [store EXCEPT !.todos = @ \o todos, !.isLoading = FALSE]

\* fetchTodos after the await: set({ todos, isLoading: false })
TodoStore_fetchTodos_then(store, todos) ==
  [store EXCEPT !.todos = todos, !.isLoading = FALSE]

\* addTodo after the await: the new todo goes to the end of the list
TodoStore_addTodo_then(store, newTodo) ==
  [store EXCEPT !.todos = Append(@, newTodo), !.isLoading = FALSE]

\* fetchUsers after the await: set({ users, isLoading: false })
UserStore_fetchUsers_then(store, users) ==
  [store EXCEPT !.users = users, !.isLoading = FALSE]

\* an addUser that puts the new user first
UserStore_addUser_then_Prepends(store, newUser) ==
  [store EXCEPT !.users = <<newUser>> \o @, !.isLoading = FALSE]

\* an addUser that writes the list anew, with its user alone
UserStore_addUser_then_Overwrites(store, newUser) ==
  [store EXCEPT !.users = <<newUser>>, !.isLoading = FALSE]

\* addUser after the await
UserStore_addUser_then(store, newUser) ==
  [store EXCEPT !.users = Append(@, newUser), !.isLoading = FALSE]

\* the catch of every store action:
\* set({ error: error instanceof Error ? error.message : '...', isLoading: false })
Store_catch(store, error) ==
  [store EXCEPT !.error = Some(error.message), !.isLoading = FALSE]

\* list.map(e => e.id === updated.id ? updated : e)
ReplaceById(s, updated) ==
  [i \in 1..Len(s) |-> IF s[i].id = updated.id THEN updated ELSE s[i]]

\* set({ dataSource: source, repository }) of changeDataSource
Store_changeDataSource(store, source) ==
  [store EXCEPT !.dataSource = source,
                !.repository = RepositoryRef(source, @.inst + 1)]

\* an updateTodo that moves the updated todo to the end of the list
TodoStore_updateTodo_then_MovesToEnd(store, updatedTodo) ==
  IF updatedTodo # Absent
  THEN [store EXCEPT !.todos = Append(FilterOutId(@, Get(updatedTodo).id), Get(updatedTodo)),
                     !.isLoading = FALSE]
  ELSE store

\* updateTodo / toggleTodoComplete after the await: nothing is set on null
TodoStore_updateTodo_then(store, updatedTodo) ==
  IF updatedTodo # Absent
  THEN [store EXCEPT !.todos = ReplaceById(@, Get(updatedTodo)), !.isLoading = FALSE]
  ELSE store

TodoStore_toggleTodoComplete_then(store, updatedTodo) ==
  IF updatedTodo # Absent
  THEN [store EXCEPT !.todos = ReplaceById(@, Get(updatedTodo)), !.isLoading = FALSE]
  ELSE store

\* deleteTodo after the await: nothing is set when the repository said false
TodoStore_deleteTodo_then(store, id, success) ==
  IF success
  THEN [store EXCEPT !.todos = FilterOutId(@, id), !.isLoading = FALSE]
  ELSE store

\* getUserById after the await: set({ isLoading: false })
UserStore_getUserById_then(store, user) == [store EXCEPT !.isLoading = FALSE]

\* updateUser after the await: the selected user follows the update
UserStore_updateUser_then(store, updatedUser) ==
  IF updatedUser # Absent
  THEN [store EXCEPT
          !.users = ReplaceById(@, Get(updatedUser)),
          !.selectedUser = IF @ # Absent /\ Get(@).id = Get(updatedUser).id
                           THEN updatedUser ELSE @,
          !.isLoading = FALSE]
  ELSE store

\* selectUser(null), and selectUser of a user of the list: no await
UserStore_selectUser_sync(store, id) ==
  IF id = Absent
  THEN [store EXCEPT !.selectedUser = Absent]
  ELSE [store EXCEPT !.selectedUser = Some(store.users[FindIndex(store.users, Get(id))])]

\* selectUser after the await: set({ selectedUser: user, isLoading: false })
UserStore_selectUser_then(store, user) ==
  [store EXCEPT !.selectedUser = user, !.isLoading = FALSE]

\* a deleteUser that leaves the selection alone
UserStore_deleteUser_then_KeepsSelection(store, id, success) ==
  IF success
  THEN [store EXCEPT !.users = FilterOutId(@, id), !.isLoading = FALSE]
  ELSE store

\* deleteUser after the await: nothing is set when the repository said false
UserStore_deleteUser_then(store, id, success) ==
  IF success
  THEN [store EXCEPT
          !.users = FilterOutId(@, id),
          !.selectedUser = IF @ # Absent /\ Get(@).id = id THEN Absent ELSE @,
          !.isLoading = FALSE]
  ELSE store

-----------------------------------------------------------------------------
(* Spec: the calls made on one repository *)

NoCall ==
  [op |-> "none", id |-> 0, ret |-> Absent, ok |-> FALSE, streak |-> 0, orig |-> FALSE]

Call(op, id, ret, ok) ==
  [op |-> op, id |-> id, ret |-> ret, ok |-> ok, streak |-> 0, orig |-> FALSE]

\* a toggleComplete call: streak counts the successful toggles made in a row
\* on this id, and orig is `completed` as it was before the first of them
ToggleCall(id, ret, was) ==
  LET second == last.op = "toggleComplete" /\ last.id = id /\ last.streak = 1
  IN [op |-> "toggleComplete", id |-> id, ret |-> ret, ok |-> ret # Absent,
      streak |-> IF ret = Absent THEN 0 ELSE IF second THEN 2 ELSE 1,
      orig |-> IF ret = Absent THEN FALSE ELSE IF second THEN last.orig ELSE was]

CanCall == clock < MaxCalls

TodoReload ==
  LET r == MockTodo_constructor(todoSlot, <<>>)
  IN /\ underTest = "todo"
     /\ todoRepo' = r.repo
     /\ todoSlot' = r.slot
     /\ last' = Call("newTodoRepo", 0, Absent, FALSE)
     /\ UNCHANGED <<clock, userRepo, userSlot, underTest, appVars>>

TodoClear ==
  LET r == MockTodo_clearLocalStorage(todoRepo, todoSlot)
  IN /\ underTest = "todo"
     /\ CanCall
     /\ clock' = clock + 1
     /\ todoRepo' = r.repo
     /\ todoSlot' = r.slot
     /\ last' = Call("clearTodos", 0, Absent, FALSE)
     /\ UNCHANGED <<userRepo, userSlot, underTest, appVars>>

TodoFill ==
  /\ underTest = "todo"
  /\ CanCall
  /\ clock' = clock + 1
  /\ \E d \in MonthDays :
       LET r == MockTodo_fillWithSampleData(todoRepo, todoSlot, clock, d)
       IN /\ todoRepo' = r.repo
          /\ todoSlot' = r.slot
  /\ last' = Call("fillTodos", 0, Absent, FALSE)
  /\ UNCHANGED <<userRepo, userSlot, underTest, appVars>>

TodoCreate ==
  /\ underTest = "todo"
  /\ CanCall
  /\ clock' = clock + 1
  /\ \E input \in CreateTodoInputs :
       LET r == MockTodo_createTodo(todoRepo, todoSlot, input, clock)
       IN /\ todoRepo' = r.repo
          /\ todoSlot' = r.slot
          /\ last' = Call("createTodo", 0, r.ret, TRUE)
  /\ UNCHANGED <<userRepo, userSlot, underTest, appVars>>

TodoUpdate ==
  /\ underTest = "todo"
  /\ CanCall
  /\ clock' = clock + 1
  /\ \E input \in UpdateTodoInputs :
       LET r == MockTodo_updateTodo(todoRepo, todoSlot, input, clock)
       IN /\ todoRepo' = r.repo
          /\ todoSlot' = r.slot
          /\ last' = Call("updateTodo", input.id, r.ret, r.ret # Absent)
  /\ UNCHANGED <<userRepo, userSlot, underTest, appVars>>

TodoDelete ==
  /\ underTest = "todo"
  /\ CanCall
  /\ clock' = clock + 1
  /\ \E id \in ArgIds :
       LET r == MockTodo_deleteTodo(todoRepo, todoSlot, id)
       IN /\ todoRepo' = r.repo
          /\ todoSlot' = r.slot
          /\ last' = Call("deleteTodo", id, Absent, r.ok)
  /\ UNCHANGED <<userRepo, userSlot, underTest, appVars>>

TodoToggle ==
  /\ underTest = "todo"
  /\ CanCall
  /\ clock' = clock + 1
  /\ \E id \in ArgIds :
       LET r == MockTodo_toggleComplete(todoRepo, todoSlot, id, clock)
           i == FindIndex(todoRepo.todos, id)
       IN /\ todoRepo' = r.repo
          /\ todoSlot' = r.slot
          /\ last' = ToggleCall(id, r.ret, i # 0 /\ todoRepo.todos[i].completed)
  /\ UNCHANGED <<userRepo, userSlot, underTest, appVars>>

UserReload ==
  LET r == MockUser_constructor(userSlot, <<>>)
  IN /\ underTest = "user"
     /\ userRepo' = r.repo
     /\ userSlot' = r.slot
     /\ last' = Call("newUserRepo", 0, Absent, FALSE)
     /\ UNCHANGED <<clock, todoRepo, todoSlot, underTest, appVars>>

UserClear ==
  LET r == MockUser_clearLocalStorage(userRepo, userSlot)
  IN /\ underTest = "user"
     /\ CanCall
     /\ clock' = clock + 1
     /\ userRepo' = r.repo
     /\ userSlot' = r.slot
     /\ last' = Call("clearUsers", 0, Absent, FALSE)
     /\ UNCHANGED <<todoRepo, todoSlot, underTest, appVars>>

UserFill ==
  LET r == MockUser_fillWithSampleData(userRepo, userSlot, clock)
  IN /\ underTest = "user"
     /\ CanCall
     /\ clock' = clock + 1
     /\ userRepo' = r.repo
     /\ userSlot' = r.slot
     /\ last' = Call("fillUsers", 0, Absent, FALSE)
     /\ UNCHANGED <<todoRepo, todoSlot, underTest, appVars>>

UserCreate ==
  /\ underTest = "user"
  /\ CanCall
  /\ clock' = clock + 1
  /\ \E input \in CreateUserInputs :
       LET r == MockUser_createUser(userRepo, userSlot, input, clock)
       IN IF IsArray(userRepo.users)
          THEN /\ userRepo' = r.repo
               /\ userSlot' = r.slot
               /\ last' = Call("createUser", 0, r.ret, TRUE)
          \* this.users.push is not a function, after `this.nextId++`
          ELSE /\ userRepo' = [userRepo EXCEPT !.nextId = @ + 1]
               /\ userSlot' = userSlot
               /\ last' = Call("createUser", 0, Some(TypeError), FALSE)
  /\ UNCHANGED <<todoRepo, todoSlot, underTest, appVars>>

UserUpdate ==
  /\ underTest = "user"
  /\ CanCall
  /\ clock' = clock + 1
  /\ \E input \in UpdateUserInputs :
       LET r == MockUser_updateUser(userRepo, userSlot, input, clock)
       IN IF IsArray(userRepo.users)
          THEN /\ userRepo' = r.repo
               /\ userSlot' = r.slot
               /\ last' = Call("updateUser", input.id, r.ret, r.ret # Absent)
          \* this.users.findIndex is not a function
          ELSE /\ UNCHANGED <<userRepo, userSlot>>
               /\ last' = Call("updateUser", input.id, Some(TypeError), FALSE)
  /\ UNCHANGED <<todoRepo, todoSlot, underTest, appVars>>

UserDelete ==
  /\ underTest = "user"
  /\ CanCall
  /\ clock' = clock + 1
  /\ \E id \in ArgIds :
       LET r == MockUser_deleteUser(userRepo, userSlot, id)
       IN IF IsArray(userRepo.users)
          THEN /\ userRepo' = r.repo
               /\ userSlot' = r.slot
               /\ last' = Call("deleteUser", id, Absent, r.ok)
          \* this.users.filter is not a function
          ELSE /\ UNCHANGED <<userRepo, userSlot>>
               /\ last' = Call("deleteUser", id, Some(TypeError), FALSE)
  /\ UNCHANGED <<todoRepo, todoSlot, underTest, appVars>>

-----------------------------------------------------------------------------

\* what a slot can hold when a repository is constructed over it: nothing, a
\* text that is not an array, or the text `saved` of a collection
SlotTexts(saved) ==
  {Absent} \cup {Unreadable(kind) : kind \in NotAnArray} \cup {<<>> \o saved}

\* the state after the modules are loaded: both repositories constructed over
\* their slots, `tests` the parts of the program the calls are made on
Boot(tests, todoTexts, userTexts) ==
  /\ clock = 0
  /\ todoSlot \in todoTexts
  /\ todoRepo = MockTodo_constructor(todoSlot, <<>>).repo
  /\ userSlot \in userTexts
  /\ userRepo = MockUser_constructor(userSlot, <<>>).repo
  /\ underTest \in tests
  /\ AppInit
  /\ last = NoCall

Init == Boot({"todo", "user"}, {Absent}, {Absent})

Next ==
  \/ TodoReload
  \/ TodoClear
  \/ TodoFill
  \/ TodoCreate
  \/ TodoUpdate
  \/ TodoDelete
  \/ TodoToggle
  \/ UserReload
  \/ UserClear
  \/ UserFill
  \/ UserCreate
  \/ UserUpdate
  \/ UserDelete

Spec == Init /\ [][Next]_vars

\* SpecLoad: the same calls, on repositories constructed over a slot that
\* holds nothing, a text that is not an array, or a saved collection
InitLoad ==
  Boot({"todo", "user"},
       SlotTexts(MockTodo_createTodo(MockTodo_constructor(Absent, <<>>).repo, Absent,
                                     [title |-> "a", completed |-> Absent,
                                      userId |-> Absent], 0).slot),
       SlotTexts(MockUser_createUser(MockUser_constructor(Absent, <<>>).repo, Absent,
                                     [name |-> "n", email |-> "e"], 0).slot))

SpecLoad == InitLoad /\ [][Next]_vars

-----------------------------------------------------------------------------
(* SpecApp: the stores over the mock repositories.                         *)
(* A store action runs up to its await inside the event that calls it.     *)
(* MockTodoRepository does its work inside that call, so the continuation  *)
(* of the store action is a microtask of the same event.                   *)
(* MockUserRepository does its work in a setTimeout(200) callback: the     *)
(* callbacks run in the order they were set, each in a later task, and the *)
(* continuation of the store action is a microtask of that task.           *)
(* No event and no timer runs while a microtask is waiting.                *)

Idle == micro = <<>>

\* no store action is awaiting its repository or waiting to run on
Quiescent == timers = <<>> /\ micro = <<>> /\ net = <<>>

\* history: the slot the store leaves behind when it goes from the simulated
\* source to the remote one with nothing in flight, kept until it is back
Left(store, source, slot) ==
  IF ~Quiescent THEN <<>>
  ELSE IF store.repository.kind = "mock"
       THEN IF source = "mock" THEN <<>> ELSE <<slot>>
       ELSE store.repository.left

\* the store the events are sent to: both in SpecApp, one of them in SpecStore
\* and in SpecRace; an event starts an action while fewer than MaxInFlight
\* actions are awaiting, fewer than MaxRacing in SpecRace
Racing == underTest \in {"todoStore.race", "userStore.race"}

Runs(store) ==
  /\ underTest \in {"app", store, store \o ".race"}
  /\ Len(timers) + Len(net) < IF Racing THEN MaxRacing ELSE MaxInFlight
  /\ Racing => clock < MaxRaceCalls

\* what a store action holds on to across its await: the repository it read
\* with `const { repository } = get()`, and whether changeDataSource called it
Captured(store) ==
  IF store = "todo"
  THEN [repository |-> todoStore.repository, switch |-> FALSE, seen |-> todoStore.todos]
  ELSE [repository |-> userStore.repository, switch |-> FALSE, seen |-> userStore.users]

\* a store action whose await has settled with a value
Continuation(store, act, id, value, ok, from) ==
  [store |-> store, act |-> act, id |-> id, value |-> value, ok |-> ok,
   thrown |-> FALSE, from |-> from]

\* a setTimeout callback of a MockUserRepository; inst is 0 for the instance
\* in userRepo, and the index in `replaced` of an instance that was replaced
Timeout(act, id, input) ==
  [act |-> act, id |-> id, input |-> input, inst |-> 0, from |-> Captured("user")]

\* a request of a GraphQL adapter that is waiting for its answer
Request(store, act, id) ==
  [store |-> store, act |-> act, id |-> id, from |-> Captured(store)]

\* repository.getTodos() as fetchTodos calls it: the mock answers at once
Await_getTodos(from, repo) ==
  IF from.repository.kind = "mock"
  THEN /\ micro' = Append(micro, Continuation("todo", "fetchTodos", 0,
                                              MockTodo_getTodos(repo), TRUE, from))
       /\ net' = net
  ELSE /\ net' = Append(net, [Request("todo", "fetchTodos", 0) EXCEPT !.from = from])
       /\ micro' = micro

\* useTodoStore.fetchTodos, up to the await
Ev_fetchTodos ==
  /\ Idle /\ CanCall /\ Runs("todoStore")
  /\ clock' = clock + 1
  /\ todoStore' = Store_begin(todoStore)
  /\ Await_getTodos(Captured("todo"), todoRepo)
  /\ last' = Call("fetchTodos", 0, Absent, FALSE)
  /\ UNCHANGED <<todoRepo, todoSlot, userRepo, userSlot, underTest, userStore, timers, replaced>>

\* useTodoStore.addTodo, up to the await
Ev_addTodo ==
  /\ Idle /\ CanCall /\ Runs("todoStore")
  /\ clock' = clock + 1
  /\ \E input \in AddTodoInputs :
       LET r == MockTodo_createTodo(todoRepo, todoSlot, input, clock)
       IN IF todoStore.repository.kind = "mock"
          THEN /\ todoRepo' = r.repo
               /\ todoSlot' = r.slot
               /\ micro' = Append(micro, Continuation("todo", "addTodo", 0, r.ret, TRUE,
                                                      Captured("todo")))
               /\ net' = net
               /\ last' = Call("addTodo", 0, r.ret, TRUE)
          ELSE /\ net' = Append(net, Request("todo", "addTodo", 0))
               /\ last' = Call("addTodo", 0, Absent, FALSE)
               /\ UNCHANGED <<todoRepo, todoSlot, micro>>
  /\ todoStore' = Store_begin(todoStore)
  /\ UNCHANGED <<userRepo, userSlot, underTest, userStore, timers, replaced>>

\* useTodoStore.updateTodo, up to the await
Ev_updateTodo ==
  /\ Idle /\ CanCall /\ Runs("todoStore")
  /\ clock' = clock + 1
  /\ \E input \in EditTodoInputs :
       LET r == MockTodo_updateTodo(todoRepo, todoSlot, input, clock)
       IN /\ IF todoStore.repository.kind = "mock"
             THEN /\ todoRepo' = r.repo
                  /\ todoSlot' = r.slot
                  /\ micro' = Append(micro, Continuation("todo", "updateTodo", input.id,
                                       r.ret, r.ret # Absent, Captured("todo")))
                  /\ net' = net
             ELSE /\ net' = Append(net, Request("todo", "updateTodo", input.id))
                  /\ UNCHANGED <<todoRepo, todoSlot, micro>>
          /\ last' = Call("updateTodo", input.id, Absent, FALSE)
  /\ todoStore' = Store_begin(todoStore)
  /\ UNCHANGED <<userRepo, userSlot, underTest, userStore, timers, replaced>>

\* useTodoStore.deleteTodo, up to the await
Ev_deleteTodo ==
  /\ Idle /\ CanCall /\ Runs("todoStore")
  /\ clock' = clock + 1
  /\ \E id \in EventIds :
       LET r == MockTodo_deleteTodo(todoRepo, todoSlot, id)
       IN /\ IF todoStore.repository.kind = "mock"
             THEN /\ todoRepo' = r.repo
                  /\ todoSlot' = r.slot
                  /\ micro' = Append(micro, Continuation("todo", "deleteTodo", id,
                                       Absent, r.ok, Captured("todo")))
                  /\ net' = net
             ELSE /\ net' = Append(net, Request("todo", "deleteTodo", id))
                  /\ UNCHANGED <<todoRepo, todoSlot, micro>>
          /\ last' = Call("deleteTodo", id, Absent, FALSE)
  /\ todoStore' = Store_begin(todoStore)
  /\ UNCHANGED <<userRepo, userSlot, underTest, userStore, timers, replaced>>

\* useTodoStore.toggleTodoComplete, up to the await
Ev_toggleTodoComplete ==
  /\ Idle /\ CanCall /\ Runs("todoStore")
  /\ clock' = clock + 1
  /\ \E id \in EventIds :
       LET r == MockTodo_toggleComplete(todoRepo, todoSlot, id, clock)
       IN /\ IF todoStore.repository.kind = "mock"
             THEN /\ todoRepo' = r.repo
                  /\ todoSlot' = r.slot
                  /\ micro' = Append(micro, Continuation("todo", "toggleTodoComplete", id,
                                       r.ret, r.ret # Absent, Captured("todo")))
                  /\ net' = net
             ELSE /\ net' = Append(net, Request("todo", "toggleTodoComplete", id))
                  /\ UNCHANGED <<todoRepo, todoSlot, micro>>
          /\ last' = Call("toggleTodoComplete", id, Absent, FALSE)
  /\ todoStore' = Store_begin(todoStore)
  /\ UNCHANGED <<userRepo, userSlot, underTest, userStore, timers, replaced>>

\* the data sources createRepository knows
DataSources == {"mock", "graphql"}

\* a changeDataSource that reloads without replacing the repository
Ev_changeTodoDataSource_KeepsRepository ==
  /\ Idle /\ CanCall /\ Runs("todoStore")
  /\ clock' = clock + 1
  /\ \E source \in DataSources :
       /\ todoStore' = Store_begin([todoStore EXCEPT !.dataSource = source])
       /\ Await_getTodos([Captured("todo") EXCEPT !.switch = TRUE], todoRepo)
       /\ last' = Call("changeTodoDataSource", 0, Some(source), FALSE)
  /\ UNCHANGED <<todoRepo, todoSlot, userRepo, userSlot, underTest, userStore, timers, replaced>>

\* useTodoStore.changeDataSource: createRepository, set({ dataSource, repository })
\* and fetchTodos up to its await, on the new repository
Ev_changeTodoDataSource ==
  /\ Idle /\ CanCall /\ Runs("todoStore")
  /\ clock' = clock + 1
  /\ \E source \in DataSources :
       LET r == IF source = "mock"
                THEN MockTodo_constructor(todoSlot, <<>>)
                ELSE [repo |-> todoRepo, slot |-> todoSlot]
           changed == [Store_changeDataSource(todoStore, source)
                         EXCEPT !.repository.left = Left(todoStore, source, todoSlot)]
       IN /\ todoRepo' = r.repo
          /\ todoSlot' = r.slot
          /\ todoStore' = Store_begin(changed)
          /\ Await_getTodos([Captured("todo") EXCEPT !.repository = changed.repository,
                                                     !.switch = TRUE], r.repo)
          /\ last' = Call("changeTodoDataSource", 0, Some(source), FALSE)
  /\ UNCHANGED <<userRepo, userSlot, underTest, userStore, timers, replaced>>

\* a method of the user repository as a store action calls it: the mock
\* sets a timer, the GraphQL adapter sends a request
Await_user(repository, act, id, input) ==
  IF repository.kind = "mock"
  THEN /\ timers' = Append(timers, Timeout(act, id, input))
       /\ net' = net
  ELSE /\ net' = Append(net, Request("user", act, id))
       /\ timers' = timers

\* useUserStore.fetchUsers, up to the await
Ev_fetchUsers ==
  /\ Idle /\ CanCall /\ Runs("userStore")
  /\ clock' = clock + 1
  /\ userStore' = Store_begin(userStore)
  /\ Await_user(userStore.repository, "fetchUsers", 0, Absent)
  /\ last' = Call("fetchUsers", 0, Absent, FALSE)
  /\ UNCHANGED <<todoRepo, todoSlot, userRepo, userSlot, underTest, todoStore, micro, replaced>>

\* useUserStore.getUserById, up to the await
Ev_getUserById ==
  /\ Idle /\ CanCall /\ Runs("userStore")
  /\ clock' = clock + 1
  /\ userStore' = Store_begin(userStore)
  /\ \E id \in EventIds :
       /\ Await_user(userStore.repository, "getUserById", id, Absent)
       /\ last' = Call("getUserById", id, Absent, FALSE)
  /\ UNCHANGED <<todoRepo, todoSlot, userRepo, userSlot, underTest, todoStore, micro, replaced>>

\* useUserStore.addUser, up to the await
Ev_addUser ==
  /\ Idle /\ CanCall /\ Runs("userStore")
  /\ clock' = clock + 1
  /\ userStore' = Store_begin(userStore)
  /\ \E input \in CreateUserInputs :
       Await_user(userStore.repository, "addUser", 0, Some(input))
  /\ last' = Call("addUser", 0, Absent, FALSE)
  /\ UNCHANGED <<todoRepo, todoSlot, userRepo, userSlot, underTest, todoStore, micro, replaced>>

\* useUserStore.updateUser, up to the await
Ev_updateUser ==
  /\ Idle /\ CanCall /\ Runs("userStore")
  /\ clock' = clock + 1
  /\ userStore' = Store_begin(userStore)
  /\ \E input \in EditUserInputs :
       /\ Await_user(userStore.repository, "updateUser", input.id, Some(input))
       /\ last' = Call("updateUser", input.id, Absent, FALSE)
  /\ UNCHANGED <<todoRepo, todoSlot, userRepo, userSlot, underTest, todoStore, micro, replaced>>

\* useUserStore.deleteUser, up to the await
Ev_deleteUser ==
  /\ Idle /\ CanCall /\ Runs("userStore")
  /\ clock' = clock + 1
  /\ userStore' = Store_begin(userStore)
  /\ \E id \in EventIds :
       /\ Await_user(userStore.repository, "deleteUser", id, Absent)
       /\ last' = Call("deleteUser", id, Absent, FALSE)
  /\ UNCHANGED <<todoRepo, todoSlot, userRepo, userSlot, underTest, todoStore, micro, replaced>>

\* a selectUser that asks the repository also for a user of the list
Ev_selectUser_AlwaysAsks ==
  /\ Idle /\ CanCall /\ Runs("userStore")
  /\ clock' = clock + 1
  /\ \E id \in {Absent} \cup {Some(i) : i \in EventIds} :
       /\ IF id = Absent
          THEN /\ userStore' = UserStore_selectUser_sync(userStore, id)
               /\ UNCHANGED <<timers, net>>
          ELSE /\ userStore' = Store_begin(userStore)
               /\ Await_user(userStore.repository, "selectUser", Get(id), Absent)
       /\ last' = Call("selectUser", IF id = Absent THEN 0 ELSE Get(id), id, FALSE)
  /\ UNCHANGED <<todoRepo, todoSlot, userRepo, userSlot, underTest, todoStore, micro, replaced>>

\* useUserStore.selectUser: null and a user of the list are settled at once,
\* any other id goes to repository.getUserById
Ev_selectUser ==
  /\ Idle /\ CanCall /\ Runs("userStore")
  /\ clock' = clock + 1
  /\ \E id \in {Absent} \cup {Some(i) : i \in EventIds} :
       /\ IF id = Absent \/ FindIndex(userStore.users, Get(id)) # 0
          THEN /\ userStore' = UserStore_selectUser_sync(userStore, id)
               /\ UNCHANGED <<timers, net>>
          ELSE /\ userStore' = Store_begin(userStore)
               /\ Await_user(userStore.repository, "selectUser", Get(id), Absent)
       /\ last' = Call("selectUser", IF id = Absent THEN 0 ELSE Get(id), id, FALSE)
  /\ UNCHANGED <<todoRepo, todoSlot, userRepo, userSlot, underTest, todoStore, micro, replaced>>

\* the timers of the instance in userRepo, handed over to the instance that
\* is about to become replaced[k]
Detach(ts, k) ==
  [i \in 1..Len(ts) |-> IF ts[i].inst = 0 THEN [ts[i] EXCEPT !.inst = k] ELSE ts[i]]

\* useUserStore.changeDataSource: createRepository, set({ dataSource, repository })
\* and fetchUsers up to its await, on the new repository.  A replaced
\* MockUserRepository lives on while one of its timers is waiting.
Ev_changeUserDataSource ==
  /\ Idle /\ CanCall /\ Runs("userStore")
  /\ clock' = clock + 1
  /\ \E source \in DataSources :
       LET changed == [Store_changeDataSource(userStore, source)
                         EXCEPT !.repository.left = Left(userStore, source, userSlot)]
           from == [Captured("user") EXCEPT !.repository = changed.repository,
                                            !.switch = TRUE]
           r == MockUser_constructor(userSlot, <<>>)
           waiting == \E i \in 1..Len(timers) : timers[i].inst = 0
       IN /\ userStore' = Store_begin(changed)
          /\ IF source = "mock"
             THEN /\ userRepo' = r.repo
                  /\ userSlot' = r.slot
                  /\ replaced' = IF waiting THEN Append(replaced, userRepo) ELSE replaced
                  /\ timers' = Append(Detach(timers, Len(replaced) + 1),
                         [Timeout("fetchUsers", 0, Absent) EXCEPT !.from = from])
                  /\ net' = net
             ELSE /\ net' = Append(net, [Request("user", "fetchUsers", 0)
                                           EXCEPT !.from = from])
                  /\ UNCHANGED <<userRepo, userSlot, replaced, timers>>
          /\ last' = Call("changeUserDataSource", 0, Some(source), FALSE)
  /\ UNCHANGED <<todoRepo, todoSlot, underTest, todoStore, micro>>

\* DataSourceSelector, "Llenar con datos de ejemplo", a button shown while the
\* task store is on the simulated source: both repositories are filled and
\* both stores start a fetch
Ev_fillWithSampleData ==
  /\ Idle /\ CanCall
  /\ todoStore.dataSource = "mock"
  /\ clock' = clock + 1
  /\ \E d \in MonthDays :
       LET tr == MockTodo_fillWithSampleData(todoRepo, todoSlot, clock, d)
       IN /\ todoRepo' = tr.repo
          /\ todoSlot' = tr.slot
          /\ micro' = Append(micro, Continuation("todo", "fetchTodos", 0,
                                MockTodo_getTodos(tr.repo), TRUE, Captured("todo")))
  /\ todoStore' = Store_begin(todoStore)
  /\ LET ur == MockUser_fillWithSampleData(userRepo, userSlot, clock)
     IN /\ userRepo' = ur.repo
        /\ userSlot' = ur.slot
  /\ userStore' = Store_begin(userStore)
  /\ timers' = Append(timers, Timeout("fetchUsers", 0, Absent))
  /\ last' = Call("fillSampleData", 0, Absent, FALSE)
  /\ UNCHANGED <<underTest, net, replaced>>

\* the timer that runs next, and the MockUserRepository that set it
HasTimer(acts) == Idle /\ timers # <<>> /\ Head(timers).act \in acts

TimerRepo == IF Head(timers).inst = 0 THEN userRepo ELSE replaced[Head(timers).inst]

\* this.users / this.nextId of the instance the callback belongs to
TimerRepoBecomes(repo) ==
  IF Head(timers).inst = 0
  THEN /\ userRepo' = repo
       /\ replaced' = replaced
  ELSE /\ replaced' = [replaced EXCEPT ![Head(timers).inst] = repo]
       /\ userRepo' = userRepo

\* the setTimeout callback of MockUserRepository.getUsers
Timer_getUsers ==
  /\ HasTimer({"fetchUsers"})
  /\ clock' = clock + 1
  /\ timers' = Tail(timers)
  /\ micro' = Append(micro, Continuation("user", "fetchUsers", 0,
                        MockUser_getUsers(TimerRepo), TRUE, Head(timers).from))
  /\ last' = Call("MockUser.getUsers", 0, Absent, TRUE)
  /\ UNCHANGED <<todoRepo, todoSlot, userRepo, userSlot, underTest, todoStore, userStore, net, replaced>>

\* the setTimeout callback of MockUserRepository.getUserById, set by the
\* store's getUserById or selectUser
Timer_getUserById ==
  /\ HasTimer({"getUserById", "selectUser"})
  /\ clock' = clock + 1
  /\ timers' = Tail(timers)
  /\ LET t == Head(timers)
         user == MockUser_getUserById(TimerRepo, t.id)
     IN /\ micro' = Append(micro, Continuation("user", t.act, t.id, user, user # Absent,
                                               t.from))
        /\ last' = Call("MockUser.getUserById", t.id, user, user # Absent)
  /\ UNCHANGED <<todoRepo, todoSlot, userRepo, userSlot, underTest, todoStore, userStore, net, replaced>>

\* the setTimeout callback of MockUserRepository.createUser
Timer_createUser ==
  /\ HasTimer({"addUser"})
  /\ clock' = clock + 1
  /\ timers' = Tail(timers)
  /\ LET r == MockUser_createUser(TimerRepo, userSlot, Get(Head(timers).input), clock)
     IN /\ TimerRepoBecomes(r.repo)
        /\ userSlot' = r.slot
        /\ micro' = Append(micro, Continuation("user", "addUser", 0, r.ret, TRUE,
                                               Head(timers).from))
        /\ last' = Call("MockUser.createUser", 0, r.ret, TRUE)
  /\ UNCHANGED <<todoRepo, todoSlot, underTest, todoStore, userStore, net>>

\* the setTimeout callback of MockUserRepository.updateUser
Timer_updateUser ==
  /\ HasTimer({"updateUser"})
  /\ clock' = clock + 1
  /\ timers' = Tail(timers)
  /\ LET t == Head(timers)
         r == MockUser_updateUser(TimerRepo, userSlot, Get(t.input), clock)
     IN /\ TimerRepoBecomes(r.repo)
        /\ userSlot' = r.slot
        /\ micro' = Append(micro, Continuation("user", "updateUser", t.id, r.ret,
                                               r.ret # Absent, t.from))
        /\ last' = Call("MockUser.updateUser", t.id, r.ret, r.ret # Absent)
  /\ UNCHANGED <<todoRepo, todoSlot, underTest, todoStore, userStore, net>>

\* a deleteUser callback that also deletes the tasks of the user
Timer_deleteUser_Cascade ==
  /\ HasTimer({"deleteUser"})
  /\ clock' = clock + 1
  /\ timers' = Tail(timers)
  /\ LET id == Head(timers).id
         r == MockUser_deleteUser(TimerRepo, userSlot, id)
         todos == SelectSeq(todoRepo.todos, LAMBDA t : t.userId # Some(id))
     IN /\ TimerRepoBecomes(r.repo)
        /\ userSlot' = r.slot
        /\ todoRepo' = [todoRepo EXCEPT !.todos = todos]
        /\ todoSlot' = IF r.ok THEN MockTodo_saveToLocalStorage(todos) ELSE todoSlot
        /\ micro' = Append(micro, Continuation("user", "deleteUser", id, Absent, r.ok,
                                               Head(timers).from))
        /\ last' = Call("MockUser.deleteUser", id, Absent, r.ok)
  /\ UNCHANGED <<underTest, todoStore, userStore, net>>

\* the setTimeout callback of MockUserRepository.deleteUser
Timer_deleteUser ==
  /\ HasTimer({"deleteUser"})
  /\ clock' = clock + 1
  /\ timers' = Tail(timers)
  /\ LET id == Head(timers).id
         r == MockUser_deleteUser(TimerRepo, userSlot, id)
     IN /\ TimerRepoBecomes(r.repo)
        /\ userSlot' = r.slot
        /\ micro' = Append(micro, Continuation("user", "deleteUser", id, Absent, r.ok,
                                               Head(timers).from))
        /\ last' = Call("MockUser.deleteUser", id, Absent, r.ok)
  /\ UNCHANGED <<todoRepo, todoSlot, underTest, todoStore, userStore, net>>

\* the i-th request in flight is one of `store` for one of `acts`
InFlight(i, store, acts) == Idle /\ net[i].store = store /\ net[i].act \in acts

\* the service answers the i-th request in flight: requests are answered in
\* any order
Answer(i, method, result, value, ok) ==
  /\ net' = SubSeq(net, 1, i - 1) \o SubSeq(net, i + 1, Len(net))
  /\ micro' = Append(micro,
       IF result.thrown
       THEN [Continuation(net[i].store, net[i].act, net[i].id, result.value, FALSE,
                          net[i].from)
               EXCEPT !.thrown = TRUE]
       ELSE Continuation(net[i].store, net[i].act, net[i].id, value, ok, net[i].from))
  /\ last' = Call(method, net[i].id, Absent, ~result.thrown)
  /\ UNCHANGED <<clock, todoRepo, todoSlot, userRepo, userSlot, underTest,
                 todoStore, userStore, timers, replaced>>

\* GraphQLTodoRepository: a method resumes from the answer of the service to
\* its request, one disjunct for each method
Net_GraphQLTodo ==
  \/ \E i \in 1..Len(net), response \in GraphQLResponses(TodoListData) :
         LET result == GraphQLTodo_getTodos(response)
         IN /\ InFlight(i, "todo", {"fetchTodos"})
            /\ Answer(i, "GraphQLTodo.getTodos", result, result.value, TRUE)
  \/ \E i \in 1..Len(net), response \in GraphQLResponses(TodoData) :
         LET result == GraphQLTodo_createTodo(response)
         IN /\ InFlight(i, "todo", {"addTodo"})
            /\ Answer(i, "GraphQLTodo.createTodo", result, Some(result.value), TRUE)
  \/ \E i \in 1..Len(net), response \in GraphQLResponses(TodoData) :
         LET result == GraphQLTodo_updateTodo(response)
         IN /\ InFlight(i, "todo", {"updateTodo"})
            /\ Answer(i, "GraphQLTodo.updateTodo", result, result.value, result.value # Absent)
  \/ \E i \in 1..Len(net), response \in GraphQLResponses(BOOLEAN) :
         LET result == GraphQLTodo_deleteTodo(response)
         IN /\ InFlight(i, "todo", {"deleteTodo"})
            /\ Answer(i, "GraphQLTodo.deleteTodo", result, Absent, result.value)
  \/ \E i \in 1..Len(net), response \in GraphQLResponses(TodoData) :
         LET result == GraphQLTodo_toggleComplete(response)
         IN /\ InFlight(i, "todo", {"toggleTodoComplete"})
            /\ Answer(i, "GraphQLTodo.toggleComplete", result, result.value, result.value # Absent)

\* GraphQLUserRepository: a method resumes from the answer of the service to
\* its request, one disjunct for each method
Net_GraphQLUser ==
  \/ \E i \in 1..Len(net), response \in GraphQLResponses(UserListData) :
         LET result == GraphQLUser_getUsers(response)
         IN /\ InFlight(i, "user", {"fetchUsers"})
            /\ Answer(i, "GraphQLUser.getUsers", result, result.value, TRUE)
  \/ \E i \in 1..Len(net), response \in GraphQLResponses(UserData) :
         LET result == GraphQLUser_getUserById(response)
         IN /\ InFlight(i, "user", {"getUserById", "selectUser"})
            /\ Answer(i, "GraphQLUser.getUserById", result, result.value, result.value # Absent)
  \/ \E i \in 1..Len(net), response \in GraphQLResponses(UserData) :
         LET result == GraphQLUser_createUser(response)
         IN /\ InFlight(i, "user", {"addUser"})
            /\ Answer(i, "GraphQLUser.createUser", result, Some(result.value), TRUE)
  \/ \E i \in 1..Len(net), response \in GraphQLResponses(UserData) :
         LET result == GraphQLUser_updateUser(response)
         IN /\ InFlight(i, "user", {"updateUser"})
            /\ Answer(i, "GraphQLUser.updateUser", result, result.value, result.value # Absent)
  \/ \E i \in 1..Len(net), response \in GraphQLResponses(BOOLEAN) :
         LET result == GraphQLUser_deleteUser(response)
         IN /\ InFlight(i, "user", {"deleteUser"})
            /\ Answer(i, "GraphQLUser.deleteUser", result, Absent, result.value)

\* the store action that runs on: the first continuation waiting
Resumes(store, act) == micro # <<>> /\ Head(micro).store = store /\ Head(micro).act = act

\* useTodoStore.fetchTodos, after the await: the try block, or the catch
Then_fetchTodos ==
  /\ Resumes("todo", "fetchTodos")
  /\ micro' = Tail(micro)
  /\ LET c == Head(micro)
     IN /\ todoStore' = IF c.thrown THEN Store_catch(todoStore, c.value) ELSE TodoStore_fetchTodos_then(todoStore, c.value)
        /\ last' = Call("fetchTodos.then", c.id, IF c.thrown THEN Absent ELSE c.value, c.ok)
  /\ UNCHANGED <<clock, todoRepo, todoSlot, userRepo, userSlot, underTest, userStore, timers, net, replaced>>

\* useTodoStore.addTodo, after the await: the try block, or the catch
Then_addTodo ==
  /\ Resumes("todo", "addTodo")
  /\ micro' = Tail(micro)
  /\ LET c == Head(micro)
     IN /\ todoStore' = IF c.thrown THEN Store_catch(todoStore, c.value) ELSE TodoStore_addTodo_then(todoStore, Get(c.value))
        /\ last' = Call("addTodo.then", c.id, IF c.thrown THEN Absent ELSE c.value, c.ok)
  /\ UNCHANGED <<clock, todoRepo, todoSlot, userRepo, userSlot, underTest, userStore, timers, net, replaced>>

\* useTodoStore.updateTodo, after the await: the try block, or the catch
Then_updateTodo ==
  /\ Resumes("todo", "updateTodo")
  /\ micro' = Tail(micro)
  /\ LET c == Head(micro)
     IN /\ todoStore' = IF c.thrown THEN Store_catch(todoStore, c.value) ELSE TodoStore_updateTodo_then(todoStore, c.value)
        /\ last' = Call("updateTodo.then", c.id, IF c.thrown THEN Absent ELSE c.value, c.ok)
  /\ UNCHANGED <<clock, todoRepo, todoSlot, userRepo, userSlot, underTest, userStore, timers, net, replaced>>

\* useTodoStore.deleteTodo, after the await: the try block, or the catch
Then_deleteTodo ==
  /\ Resumes("todo", "deleteTodo")
  /\ micro' = Tail(micro)
  /\ LET c == Head(micro)
     IN /\ todoStore' = IF c.thrown THEN Store_catch(todoStore, c.value) ELSE TodoStore_deleteTodo_then(todoStore, c.id, c.ok)
        /\ last' = Call("deleteTodo.then", c.id, IF c.thrown THEN Absent ELSE c.value, c.ok)
  /\ UNCHANGED <<clock, todoRepo, todoSlot, userRepo, userSlot, underTest, userStore, timers, net, replaced>>

\* useTodoStore.toggleTodoComplete, after the await: the try block, or the catch
Then_toggleTodoComplete ==
  /\ Resumes("todo", "toggleTodoComplete")
  /\ micro' = Tail(micro)
  /\ LET c == Head(micro)
     IN /\ todoStore' = IF c.thrown THEN Store_catch(todoStore, c.value) ELSE TodoStore_toggleTodoComplete_then(todoStore, c.value)
        /\ last' = Call("toggleTodoComplete.then", c.id, IF c.thrown THEN Absent ELSE c.value, c.ok)
  /\ UNCHANGED <<clock, todoRepo, todoSlot, userRepo, userSlot, underTest, userStore, timers, net, replaced>>

\* useUserStore.fetchUsers, after the await: the try block, or the catch
Then_fetchUsers ==
  /\ Resumes("user", "fetchUsers")
  /\ micro' = Tail(micro)
  /\ LET c == Head(micro)
     IN /\ userStore' = IF c.thrown THEN Store_catch(userStore, c.value) ELSE UserStore_fetchUsers_then(userStore, c.value)
        /\ last' = Call("fetchUsers.then", c.id, IF c.thrown THEN Absent ELSE c.value, c.ok)
  /\ UNCHANGED <<clock, todoRepo, todoSlot, userRepo, userSlot, underTest, todoStore, timers, net, replaced>>

\* useUserStore.getUserById, after the await: the try block, or the catch
Then_getUserById ==
  /\ Resumes("user", "getUserById")
  /\ micro' = Tail(micro)
  /\ LET c == Head(micro)
     IN /\ userStore' = IF c.thrown THEN Store_catch(userStore, c.value) ELSE UserStore_getUserById_then(userStore, c.value)
        /\ last' = Call("getUserById.then", c.id, IF c.thrown THEN Absent ELSE c.value, c.ok)
  /\ UNCHANGED <<clock, todoRepo, todoSlot, userRepo, userSlot, underTest, todoStore, timers, net, replaced>>

\* useUserStore.addUser, after the await: the try block, or the catch
Then_addUser ==
  /\ Resumes("user", "addUser")
  /\ micro' = Tail(micro)
  /\ LET c == Head(micro)
     IN /\ userStore' = IF c.thrown THEN Store_catch(userStore, c.value) ELSE UserStore_addUser_then(userStore, Get(c.value))
        /\ last' = Call("addUser.then", c.id, IF c.thrown THEN Absent ELSE c.value, c.ok)
  /\ UNCHANGED <<clock, todoRepo, todoSlot, userRepo, userSlot, underTest, todoStore, timers, net, replaced>>

\* useUserStore.updateUser, after the await: the try block, or the catch
Then_updateUser ==
  /\ Resumes("user", "updateUser")
  /\ micro' = Tail(micro)
  /\ LET c == Head(micro)
     IN /\ userStore' = IF c.thrown THEN Store_catch(userStore, c.value) ELSE UserStore_updateUser_then(userStore, c.value)
        /\ last' = Call("updateUser.then", c.id, IF c.thrown THEN Absent ELSE c.value, c.ok)
  /\ UNCHANGED <<clock, todoRepo, todoSlot, userRepo, userSlot, underTest, todoStore, timers, net, replaced>>

\* useUserStore.deleteUser, after the await: the try block, or the catch
Then_deleteUser ==
  /\ Resumes("user", "deleteUser")
  /\ micro' = Tail(micro)
  /\ LET c == Head(micro)
     IN /\ userStore' = IF c.thrown THEN Store_catch(userStore, c.value) ELSE UserStore_deleteUser_then(userStore, c.id, c.ok)
        /\ last' = Call("deleteUser.then", c.id, IF c.thrown THEN Absent ELSE c.value, c.ok)
  /\ UNCHANGED <<clock, todoRepo, todoSlot, userRepo, userSlot, underTest, todoStore, timers, net, replaced>>

\* useUserStore.selectUser, after the await: the try block, or the catch
Then_selectUser ==
  /\ Resumes("user", "selectUser")
  /\ micro' = Tail(micro)
  /\ LET c == Head(micro)
     IN /\ userStore' = IF c.thrown THEN Store_catch(userStore, c.value) ELSE UserStore_selectUser_then(userStore, c.value)
        /\ last' = Call("selectUser.then", c.id, IF c.thrown THEN Absent ELSE c.value, c.ok)
  /\ UNCHANGED <<clock, todoRepo, todoSlot, userRepo, userSlot, underTest, todoStore, timers, net, replaced>>

InitApp == Boot({"app"}, {Absent}, {Absent})

NextApp ==
  \/ Ev_fetchTodos
  \/ Ev_addTodo
  \/ Ev_fetchUsers
  \/ Ev_addUser
  \/ Ev_deleteUser
  \/ Ev_fillWithSampleData
  \/ Timer_getUsers
  \/ Timer_createUser
  \/ Timer_deleteUser
  \/ Then_fetchTodos
  \/ Then_addTodo
  \/ Then_fetchUsers
  \/ Then_addUser
  \/ Then_deleteUser

SpecApp == InitApp /\ [][NextApp]_vars

-----------------------------------------------------------------------------
(* SpecSelector: the DataSourceSelector page over the two stores             *)

\* the buttons "GraphQL" and "Mock": changeDataSource of useTodoStore, the
\* store the component takes `dataSource` and `changeDataSource` from
handleDataSourceChange == Ev_changeTodoDataSource

\* "Actualizar", the form shown while dataSource is 'graphql'
handleGraphQLConfigSubmit ==
  /\ todoStore.dataSource = "graphql"
  /\ Ev_changeTodoDataSource
  /\ todoStore'.dataSource = "graphql"

\* "Limpiar almacenamiento local", a button shown while dataSource is 'mock':
\* both keys are removed, both stores get a new simulated repository and
\* fetch from it (changeDataSource), and both stores fetch once more
clearLocalStorage ==
  /\ Idle /\ CanCall /\ Runs("todoStore")
  /\ todoStore.dataSource = "mock"
  /\ clock' = clock + 1
  /\ LET tr == MockTodo_constructor(Absent, <<>>)
         ur == MockUser_constructor(Absent, <<>>)
         todos == [Store_changeDataSource(todoStore, "mock")
                     EXCEPT !.repository.left = Left(todoStore, "mock", Absent)]
         users == [Store_changeDataSource(userStore, "mock")
                     EXCEPT !.repository.left = Left(userStore, "mock", Absent)]
         todoFrom == [Captured("todo") EXCEPT !.repository = todos.repository]
         userFrom == [Captured("user") EXCEPT !.repository = users.repository]
         waiting == \E i \in 1..Len(timers) : timers[i].inst = 0
     IN /\ todoRepo' = tr.repo
        /\ todoSlot' = tr.slot
        /\ userRepo' = ur.repo
        /\ userSlot' = ur.slot
        /\ todoStore' = Store_begin(todos)
        /\ userStore' = Store_begin(users)
        /\ micro' = micro \o
             << Continuation("todo", "fetchTodos", 0, MockTodo_getTodos(tr.repo), TRUE,
                             [todoFrom EXCEPT !.switch = TRUE]),
                Continuation("todo", "fetchTodos", 0, MockTodo_getTodos(tr.repo), TRUE,
                             todoFrom) >>
        /\ replaced' = IF waiting THEN Append(replaced, userRepo) ELSE replaced
        /\ timers' = Detach(timers, Len(replaced) + 1) \o
             << [Timeout("fetchUsers", 0, Absent)
                   EXCEPT !.from = [userFrom EXCEPT !.switch = TRUE]],
                [Timeout("fetchUsers", 0, Absent) EXCEPT !.from = userFrom] >>
  /\ last' = Call("clearLocalStorage", 0, Absent, FALSE)
  /\ UNCHANGED <<underTest, net>>

NextSelector ==
  \/ handleDataSourceChange
  \/ handleGraphQLConfigSubmit
  \/ Ev_fillWithSampleData
  \/ clearLocalStorage
  \/ Timer_getUsers
  \* GraphQLTodoRepository.getTodos resumes from the answer of the service
  \/ \E i \in 1..Len(net), response \in GraphQLResponses(TodoListData) :
       LET result == GraphQLTodo_getTodos(response)
       IN /\ InFlight(i, "todo", {"fetchTodos"})
          /\ Answer(i, "GraphQLTodo.getTodos", result, result.value, TRUE)
  \/ Then_fetchTodos
  \/ Then_fetchUsers

SpecSelector == InitApp /\ [][NextSelector]_vars

-----------------------------------------------------------------------------
(* SpecStore: every action of one store, over the mock repository and over  *)
(* the GraphQL repository that changeDataSource puts in its place           *)

InitStore == Boot({"todoStore", "userStore"}, {Absent}, {Absent})

NextStore ==
  \/ Ev_fetchTodos
  \/ Ev_addTodo
  \/ Ev_updateTodo
  \/ Ev_deleteTodo
  \/ Ev_toggleTodoComplete
  \/ Ev_changeTodoDataSource
  \/ Ev_fetchUsers
  \/ Ev_getUserById
  \/ Ev_addUser
  \/ Ev_updateUser
  \/ Ev_deleteUser
  \/ Ev_selectUser
  \/ Ev_changeUserDataSource
  \/ Timer_getUsers
  \/ Timer_getUserById
  \/ Timer_createUser
  \/ Timer_updateUser
  \/ Timer_deleteUser
  \/ Net_GraphQLTodo
  \/ Net_GraphQLUser
  \/ Then_fetchTodos
  \/ Then_addTodo
  \/ Then_updateTodo
  \/ Then_deleteTodo
  \/ Then_toggleTodoComplete
  \/ Then_fetchUsers
  \/ Then_getUserById
  \/ Then_addUser
  \/ Then_updateUser
  \/ Then_deleteUser
  \/ Then_selectUser

SpecStore == InitStore /\ [][NextStore]_vars

\* SpecRace: the same actions, started while another one is awaiting
InitRace == Boot({"todoStore.race", "userStore.race"}, {Absent}, {Absent})

SpecRace == InitRace /\ [][NextStore]_vars

-----------------------------------------------------------------------------
(* SpecRemote: one call of a remote adapter method and the response of the  *)
(* remote service to its request                                             *)

RemoteCall(adapter, method, response, result) ==
  [op |-> method, adapter |-> adapter, response |-> response, result |-> result]

\* the adapter method was called and the service answered `response`
Answered(adapter, method, response, result) ==
  /\ underTest = "remote"
  /\ last' = RemoteCall(adapter, method, response, result)
  /\ UNCHANGED <<clock, todoRepo, todoSlot, userRepo, userSlot, underTest, appVars>>

InitRemote == Boot({"remote"}, {Absent}, {Absent})

\* one disjunct for each method of the four remote adapters
NextRemote ==
  \/ \E r \in GraphQLResponses(TodoListData) :
       Answered("GraphQLTodo", "getTodos", r, GraphQLTodo_getTodos(r))
  \/ \E r \in GraphQLResponses(TodoData) :
       Answered("GraphQLTodo", "getTodoById", r, GraphQLTodo_getTodoById(r))
  \/ \E r \in GraphQLResponses(TodoData) :
       Answered("GraphQLTodo", "createTodo", r, GraphQLTodo_createTodo(r))
  \/ \E r \in GraphQLResponses(TodoData) :
       Answered("GraphQLTodo", "updateTodo", r, GraphQLTodo_updateTodo(r))
  \/ \E r \in GraphQLResponses(BOOLEAN) :
       Answered("GraphQLTodo", "deleteTodo", r, GraphQLTodo_deleteTodo(r))
  \/ \E r \in GraphQLResponses(TodoData) :
       Answered("GraphQLTodo", "toggleComplete", r, GraphQLTodo_toggleComplete(r))
  \/ \E r \in GraphQLResponses(UserListData) :
       Answered("GraphQLUser", "getUsers", r, GraphQLUser_getUsers(r))
  \/ \E r \in GraphQLResponses(UserData) :
       Answered("GraphQLUser", "getUserById", r, GraphQLUser_getUserById(r))
  \/ \E r \in GraphQLResponses(UserData) :
       Answered("GraphQLUser", "createUser", r, GraphQLUser_createUser(r))
  \/ \E r \in GraphQLResponses(UserData) :
       Answered("GraphQLUser", "updateUser", r, GraphQLUser_updateUser(r))
  \/ \E r \in GraphQLResponses(BOOLEAN) :
       Answered("GraphQLUser", "deleteUser", r, GraphQLUser_deleteUser(r))
  \/ \E r \in RestResponses(TodoListData) :
       Answered("RestTodo", "getTodos", r, RestTodo_getTodos(r))
  \/ \E r \in RestResponses(TodoData) :
       Answered("RestTodo", "getTodoById", r, RestTodo_getTodoById(r))
  \/ \E r \in RestResponses(TodoData) :
       Answered("RestTodo", "createTodo", r, RestTodo_createTodo(r))
  \/ \E r \in RestResponses(TodoData) :
       Answered("RestTodo", "updateTodo", r, RestTodo_updateTodo(r))
  \/ \E r \in RestResponses({Absent}) :
       Answered("RestTodo", "deleteTodo", r, RestTodo_deleteTodo(r))
  \/ \E r \in RestResponses(UserListData) :
       Answered("RestUser", "getUsers", r, RestUser_getUsers(r))
  \/ \E r \in RestResponses(UserData) :
       Answered("RestUser", "getUserById", r, RestUser_getUserById(r))
  \/ \E r \in RestResponses(UserData) :
       Answered("RestUser", "createUser", r, RestUser_createUser(r))
  \/ \E r \in RestResponses(UserData) :
       Answered("RestUser", "updateUser", r, RestUser_updateUser(r))
  \/ \E r \in RestResponses({Absent}) :
       Answered("RestUser", "deleteUser", r, RestUser_deleteUser(r))
  \/ \E g \in RestResponses(TodoData), r \in RestResponses(TodoData) :
        Answered("RestTodo", "toggleComplete", <<g, r>>, RestTodo_toggleComplete(g, r))

SpecRemote == InitRemote /\ [][NextRemote]_vars

-----------------------------------------------------------------------------
(* Properties of the repositories, checked under Spec *)

TodoFields == {"id", "title", "completed", "userId", "createdAt", "updatedAt"}
UserFields == {"id", "name", "email", "createdAt", "updatedAt"}

\* the collection a slot holds, as a new instance reads it
PersistedTodos == MockTodo_loadFromLocalStorage(todoSlot)
PersistedUsers == MockUser_loadFromLocalStorage(userSlot).users

StrictlyIncreasing(s) == \A i \in 1..(Len(s) - 1) : s[i] < s[i + 1]

MadeByCreate(s) == \A i \in 1..Len(s) : s[i].hist.made = "create"

\* C1: when the persisted collection was made by creates and deletes, a create
\* made on an instance just constructed from the persisted slot yields an id
\* strictly greater than every id of the persisted collection, in the task
\* repository and in the user repository.
C1_CreateAfterReloadIsAboveAllPersistedIds ==
  [][ /\ (last.op = "newTodoRepo" /\ last'.op = "createTodo"
           /\ MadeByCreate(PersistedTodos))
          => \A id \in Ids(PersistedTodos) : Get(last'.ret).id > id
      /\ (last.op = "newUserRepo" /\ last'.op = "createUser"
           /\ MadeByCreate(PersistedUsers))
          => \A id \in Ids(PersistedUsers) : Get(last'.ret).id > id ]_vars

\* C2: the ids one instance hands out (by create and by fill-with-sample-data,
\* whatever update, delete, toggleComplete and clear-all calls come between)
\* are strictly increasing, the counter stays just past the last of them, and
\* on an instance started over an empty slot the first one is 1.
HandedInOrder(repo) ==
  /\ StrictlyIncreasing(repo.handed)
  /\ repo.handed # <<>> => repo.nextId = repo.handed[Len(repo.handed)] + 1
  /\ repo.fresh /\ repo.handed # <<>> => repo.handed[1] = 1
  /\ repo.fresh /\ repo.handed = <<>> => repo.nextId = 1

C2_IdsStrictlyIncrease == HandedInOrder(todoRepo) /\ HandedInOrder(userRepo)

\* the instance started empty, a create, a fill and a clear-all were made,
\* and the create after them got the ninth id
C2_Witness ==
  /\ todoRepo.fresh
  /\ last.op = "createTodo"
  /\ todoRepo.handed = <<1, 2, 3, 4, 5, 6, 7, 8, 9>>
  /\ Len(todoRepo.todos) = 1

\* C3: update with an id that is not in the collection returns null and
\* leaves the collection and the slot as they were.
C3_UpdateOfUnknownIdChangesNothing ==
  [][ /\ (last'.op = "updateTodo" /\ clock' # clock
           /\ last'.id \notin Ids(todoRepo.todos))
          => /\ last'.ret = Absent
             /\ todoRepo' = todoRepo
             /\ todoSlot' = todoSlot
      /\ (last'.op = "updateUser" /\ clock' # clock
           /\ last'.id \notin Ids(userRepo.users))
          => /\ last'.ret = Absent
             /\ userRepo' = userRepo
             /\ userSlot' = userSlot ]_vars

\* an update of an unknown id was made on a collection that holds an entity
C3_Witness ==
  /\ last.op = "updateTodo"
  /\ last.ret = Absent
  /\ Len(todoRepo.todos) > 0
  /\ todoSlot # Absent

\* C4: delete with an id not in the collection returns false and leaves the
\* collection unchanged; delete with an id in the collection returns true,
\* removes exactly one entity and leaves every other entity unchanged.
DeleteRemovesOne(before, after, id, ok) ==
  IF id \notin Ids(before)
  THEN ~ ok /\ after = before
  ELSE /\ ok
       /\ Len(after) = Len(before) - 1
       /\ after = FilterOutId(before, id)

C4_DeleteRemovesExactlyOne ==
  [][ /\ (last'.op = "deleteTodo" /\ clock' # clock)
          => DeleteRemovesOne(todoRepo.todos, todoRepo'.todos, last'.id, last'.ok)
      /\ (last'.op = "deleteUser" /\ clock' # clock)
          => DeleteRemovesOne(userRepo.users, userRepo'.users, last'.id, last'.ok)
    ]_vars

\* C5: a toggleComplete call on an id of the collection returns the entry it
\* found with completed negated and updatedAt set to the time of the call,
\* every other field and every other entry unchanged; after two calls in a
\* row on the same id, completed is what it was before the first.
ToggledFrom(old, new, now) ==
  /\ new.completed = ~ old.completed
  /\ new.updatedAt = Some(now)
  /\ \A f \in TodoFields \ {"completed", "updatedAt"} : new[f] = old[f]

C7_SlotMirrorsCollection ==
  /\ last.op \in {"createTodo", "updateTodo", "deleteTodo", "toggleComplete"}
       => /\ PersistedTodos = todoRepo.todos
          /\ last.ok => todoSlot = MockTodo_saveToLocalStorage(todoRepo.todos)
  /\ last.op \in {"createUser", "updateUser", "deleteUser"}
       => /\ PersistedUsers = userRepo.users
          /\ last.ok => userSlot = MockUser_saveToLocalStorage(userRepo.users)

\* a delete removed an entity and left one that carries an updatedAt
C7_Witness ==
  /\ last.op = "deleteTodo"
  /\ last.ok
  /\ \E i \in 1..Len(todoRepo.todos) : todoRepo.todos[i].updatedAt # Absent

\* C8 as stated: every entity has updatedAt exactly when an update or a
\* toggleComplete has succeeded on it.
UpdatedAtIffMutated(e) == (e.updatedAt # Absent) <=> e.hist.mutated

UpdatedAtRule(e) ==
  IF e.hist.made = "create"
  THEN UpdatedAtIffMutated(e)
  ELSE e.hist.mutated => e.updatedAt # Absent

C9_FillGivesSevenTasksThreeUsers ==
  /\ last.op = "fillTodos"
       => /\ Len(todoRepo.todos) = 7
          /\ Cardinality({i \in 1..Len(todoRepo.todos) :
                            todoRepo.todos[i].completed}) = 3
          /\ {todoRepo.todos[i].userId : i \in 1..Len(todoRepo.todos)}
               = {Some(1), Some(2), Some(3)}
          /\ todoSlot # Absent
          /\ PersistedTodos = todoRepo.todos
  /\ last.op = "fillUsers"
       => /\ Len(userRepo.users) = 3
          /\ userSlot # Absent
          /\ PersistedUsers = userRepo.users

\* the fill was the first call on a freshly constructed, empty task repository
C9_Witness ==
  /\ last.op = "fillTodos"
  /\ clock = 1
  /\ todoRepo.fresh
  /\ Ids(todoRepo.todos) = 1..7

-----------------------------------------------------------------------------
(* Properties of the application, checked under SpecApp *)

\* C6: no step of a user delete (the store action up to its await, the
\* callback of MockUserRepository.deleteUser, the store action after its
\* await) changes the task repository, the task slot or the task store's list.
C6_DeleteUserLeavesTasksAlone ==
  [][ last'.op \in {"deleteUser", "MockUser.deleteUser", "deleteUser.then"}
       => /\ todoRepo' = todoRepo
          /\ todoSlot' = todoSlot
          /\ todoStore'.todos = todoStore.todos ]_vars

HasTaskOf(todos, userId) == \E i \in 1..Len(todos) : todos[i].userId = Some(userId)

\* a user delete has completed in the store, and a task of the deleted user
\* is still in the repository, in the slot and in the task store's list
C6_Witness ==
  /\ last.op = "deleteUser.then"
  /\ last.ok
  /\ last.id \notin Ids(userRepo.users)
  /\ last.id \notin Ids(userStore.users)
  /\ HasTaskOf(todoRepo.todos, last.id)
  /\ HasTaskOf(PersistedTodos, last.id)
  /\ HasTaskOf(todoStore.todos, last.id)

\* C10: once "fill with sample data" has filled both repositories, every
\* seed task's userId is the id of one of the seed users just generated.
C10_SeedTasksBelongToSeedUsers ==
  last.op = "fillSampleData"
    => \A i \in 1..Len(todoRepo.todos) :
         /\ todoRepo.todos[i].userId # Absent
         /\ Get(todoRepo.todos[i].userId) \in Ids(userRepo.users)

-----------------------------------------------------------------------------
(* Properties of the remote adapters, checked under SpecRemote *)

RemoteCalled(adapters, methods) ==
  last.op # "none" /\ last.adapter \in adapters /\ last.op \in methods

\* the service found nothing (null data) or the transport failed
NotFoundOrFailed(response) == ~response.ok \/ response.data = Absent

\* C11: in the GraphQL adapters for tasks and for users, getById, update,
\* delete and toggleComplete never raise: not found or a transport failure
\* gives null (getById, update, toggleComplete) or false (delete); create
\* raises to the caller on failure.
C11_GraphQLOnlyCreateRaises ==
  /\ RemoteCalled({"GraphQLTodo", "GraphQLUser"},
                  {"getTodoById", "updateTodo", "toggleComplete",
                   "getUserById", "updateUser"})
       => /\ ~last.result.thrown
          /\ NotFoundOrFailed(last.response) => last.result.value = Absent
  /\ RemoteCalled({"GraphQLTodo", "GraphQLUser"}, {"deleteTodo", "deleteUser"})
       => /\ ~last.result.thrown
          /\ ~last.response.ok => last.result.value = FALSE
  /\ RemoteCalled({"GraphQLTodo", "GraphQLUser"}, {"createTodo", "createUser"})
       => (~last.response.ok => last.result.thrown)

\* C12: in the REST adapters for tasks and for users, getById, update and
\* delete map a not-found status to null / false without raising, and raise
\* every other error status to the caller.
C12_RestNotFoundIsNullOtherStatusRaises ==
  RemoteCalled({"RestTodo", "RestUser"},
               {"getTodoById", "updateTodo", "deleteTodo",
                "getUserById", "updateUser", "deleteUser"})
    /\ ~last.response.ok /\ last.response.error.status # Absent
    => IF IsNotFound(last.response.error)
       THEN /\ ~last.result.thrown
            /\ last.result.value = IF last.op \in {"deleteTodo", "deleteUser"}
                                   THEN FALSE ELSE Absent
       ELSE last.result.thrown

\* C13: in every remote adapter a transport failure during list is swallowed:
\* list returns an empty list and does not raise.
C13_ListSwallowsTransportFailure ==
  RemoteCalled({"GraphQLTodo", "GraphQLUser", "RestTodo", "RestUser"},
               {"getTodos", "getUsers"})
    /\ ~last.response.ok
    => ~last.result.thrown /\ last.result.value = <<>>

-----------------------------------------------------------------------------
(* Properties of the store actions, checked under SpecStore *)

\* the step is the event that sets last.op to `op`
Step(op) == last'.op = op /\ clock' = clock + 1

\* the step is the resumption of the store action `act` after its await
ResumeStep(store, act) == Resumes(store, act) /\ micro' = Tail(micro)

\* C14: fetchTodos / fetchUsers set loading and clear error before the
\* repository is awaited; when list succeeds the store's list becomes the
\* returned list and loading is reset; when list raises, error holds the
\* message, loading is reset and the list is left as it was.
C14_FetchAllContract ==
  [][ /\ Step("fetchTodos")
         => todoStore'.isLoading /\ todoStore'.error = Absent
      /\ Step("fetchUsers")
         => userStore'.isLoading /\ userStore'.error = Absent
      /\ ResumeStep("todo", "fetchTodos")
         => IF Head(micro).thrown
            THEN /\ todoStore'.error = Some(Head(micro).value.message)
                 /\ ~todoStore'.isLoading
                 /\ todoStore'.todos = todoStore.todos
            ELSE /\ todoStore'.todos = Head(micro).value
                 /\ ~todoStore'.isLoading
      /\ ResumeStep("user", "fetchUsers")
         => IF Head(micro).thrown
            THEN /\ userStore'.error = Some(Head(micro).value.message)
                 /\ ~userStore'.isLoading
                 /\ userStore'.users = userStore.users
            ELSE /\ userStore'.users = Head(micro).value
                 /\ ~userStore'.isLoading
    ]_vars

\* a fetch of the task store has failed over a list that was not empty
C14_Witness ==
  /\ last.op = "fetchTodos.then"
  /\ todoStore.error # Absent
  /\ ~todoStore.isLoading
  /\ Len(todoStore.todos) > 0

\* C15: addTodo / addUser put the created entity at the end of the list and
\* keep the entries before it in order; when create raises, the list is
\* unchanged, loading is reset and error is the one message of this failure.
C15_CreateAppendsOrReportsOneError ==
  [][ /\ ResumeStep("todo", "addTodo")
         => IF Head(micro).thrown
            THEN /\ todoStore'.todos = todoStore.todos
                 /\ ~todoStore'.isLoading
                 /\ todoStore'.error = Some(Head(micro).value.message)
            ELSE /\ todoStore'.todos = todoStore.todos \o <<Get(Head(micro).value)>>
                 /\ ~todoStore'.isLoading
      /\ ResumeStep("user", "addUser")
         => IF Head(micro).thrown
            THEN /\ userStore'.users = userStore.users
                 /\ ~userStore'.isLoading
                 /\ userStore'.error = Some(Head(micro).value.message)
            ELSE /\ userStore'.users = userStore.users \o <<Get(Head(micro).value)>>
                 /\ ~userStore'.isLoading
    ]_vars

\* a second user has been added behind the first
C15_Witness ==
  /\ last.op = "addUser.then"
  /\ Len(userStore.users) = 2
  /\ last.ret = Some(userStore.users[2])
  /\ userStore.users[1] # userStore.users[2]

\* the entry of an id is replaced by `e` and nothing else moves or changes
ReplacedIn(before, after, e) ==
  /\ Len(after) = Len(before)
  /\ \A i \in 1..Len(before) :
       after[i] = IF before[i].id = e.id THEN e ELSE before[i]

\* C16: updateTodo, toggleTodoComplete and updateUser replace the list entry
\* with the id of the entity the repository returned and leave every other
\* entry and the order alone; on null the list is unchanged and error stays
\* none.
C16_UpdateReplacesByIdOrLeavesList ==
  [][ /\ (ResumeStep("todo", "updateTodo") \/ ResumeStep("todo", "toggleTodoComplete"))
           /\ ~Head(micro).thrown
         => IF Head(micro).value # Absent
            THEN ReplacedIn(todoStore.todos, todoStore'.todos, Get(Head(micro).value))
            ELSE /\ todoStore'.todos = todoStore.todos
                 /\ todoStore'.error = todoStore.error
      /\ ResumeStep("user", "updateUser") /\ ~Head(micro).thrown
         => IF Head(micro).value # Absent
            THEN ReplacedIn(userStore.users, userStore'.users, Get(Head(micro).value))
            ELSE /\ userStore'.users = userStore.users
                 /\ userStore'.error = userStore.error
    ]_vars

\* the first of two tasks has been updated in the list
C16_Witness ==
  /\ last.op = "updateTodo.then"
  /\ last.ok
  /\ Len(todoStore.todos) = 2
  /\ last.ret = Some(todoStore.todos[1])
  /\ todoStore.todos[2].id # todoStore.todos[1].id

\* C17: a store action run alone brings the store back from loading to idle:
\* once its repository call has returned or raised, loading is false, also
\* when update or toggleComplete gave null and when delete gave false.
C17_EveryActionEndsIdle ==
  Quiescent => ~todoStore.isLoading /\ ~userStore.isLoading

\* C18: deleteTodo / deleteUser: when the repository says true, the list has
\* no entry with the id any more and its other entries are as before, and
\* the user store drops selectedUser if it had the id and keeps it otherwise;
\* when the repository says false, list and selectedUser are unchanged.
C18_DeleteRemovesIdAndSelection ==
  [][ /\ ResumeStep("todo", "deleteTodo") /\ ~Head(micro).thrown
         => IF Head(micro).ok
            THEN /\ Head(micro).id \notin Ids(todoStore'.todos)
                 /\ todoStore'.todos = FilterOutId(todoStore.todos, Head(micro).id)
            ELSE todoStore'.todos = todoStore.todos
      /\ ResumeStep("user", "deleteUser") /\ ~Head(micro).thrown
         => IF Head(micro).ok
            THEN /\ Head(micro).id \notin Ids(userStore'.users)
                 /\ userStore'.users = FilterOutId(userStore.users, Head(micro).id)
                 /\ userStore'.selectedUser =
                      IF userStore.selectedUser # Absent
                           /\ Get(userStore.selectedUser).id = Head(micro).id
                      THEN Absent ELSE userStore.selectedUser
            ELSE /\ userStore'.users = userStore.users
                 /\ userStore'.selectedUser = userStore.selectedUser
    ]_vars

\* the selected user has been deleted
C18_Witness ==
  /\ last.op = "deleteUser.then"
  /\ last.ok
  /\ userStore.selectedUser = Absent
  /\ userStore.users = <<>>
  /\ userRepo.handed # <<>>

\* the calls of the user repository that are waiting
Asked == Len(timers) + Len(net)

\* the call the last event made is getUserById(id)
AsksGetUserById(id) ==
  \/ /\ timers' = Append(timers, Timeout("selectUser", id, Absent))
     /\ net' = net
  \/ /\ net' = Append(net, Request("user", "selectUser", id))
     /\ timers' = timers

\* C19: selectUser(id) of an id of the store's list selects that entry
\* without a repository call and without touching loading; of an id that is
\* not in the list it makes exactly one getUserById call, whose result
\* becomes selectedUser; selectUser(null) clears the selection without a call.
C19_SelectUserAsksOnlyForUnknownIds ==
  [][ /\ Step("selectUser")
         => LET id == last'.ret
            IN IF id = Absent
               THEN /\ userStore'.selectedUser = Absent
                    /\ UNCHANGED <<timers, net>>
               ELSE IF Get(id) \in Ids(userStore.users)
               THEN /\ userStore'.selectedUser # Absent
                    /\ \E i \in 1..Len(userStore.users) :
                         userStore'.selectedUser = Some(userStore.users[i])
                    /\ Get(userStore'.selectedUser).id = Get(id)
                    /\ userStore'.isLoading = userStore.isLoading
                    /\ UNCHANGED <<timers, net>>
               ELSE AsksGetUserById(Get(id))
      /\ ResumeStep("user", "selectUser") /\ ~Head(micro).thrown
         => /\ userStore'.selectedUser = Head(micro).value
            /\ UNCHANGED <<timers, net>>
    ]_vars

\* a user of the list has been selected while nothing was asked
C19_Witness ==
  /\ last.op = "selectUser"
  /\ userStore.selectedUser # Absent
  /\ Get(userStore.selectedUser).id \in Ids(userStore.users)
  /\ Asked = 0

\* C20: changeDataSource(tag) sets dataSource to tag and the repository to a
\* newly constructed one of that kind before the reload starts; no other
\* step changes either, whether the reload succeeds or fails; a failed
\* reload sets error, resets loading and leaves the list with the contents of
\* the previous data source.
C20_ChangeDataSourceReplacesRepository ==
  [][ /\ Step("changeTodoDataSource")
         => /\ todoStore'.dataSource = Get(last'.ret)
            /\ todoStore'.repository.kind = Get(last'.ret)
            /\ todoStore'.repository.inst > todoStore.repository.inst
            /\ todoStore'.isLoading
            /\ todoStore'.todos = todoStore.todos
      /\ Step("changeUserDataSource")
         => /\ userStore'.dataSource = Get(last'.ret)
            /\ userStore'.repository.kind = Get(last'.ret)
            /\ userStore'.repository.inst > userStore.repository.inst
            /\ userStore'.isLoading
            /\ userStore'.users = userStore.users
      /\ ~Step("changeTodoDataSource")
         => /\ todoStore'.dataSource = todoStore.dataSource
            /\ todoStore'.repository = todoStore.repository
      /\ ~Step("changeUserDataSource")
         => /\ userStore'.dataSource = userStore.dataSource
            /\ userStore'.repository = userStore.repository
      /\ ResumeStep("todo", "fetchTodos") /\ Head(micro).thrown
         => /\ todoStore'.error # Absent
            /\ ~todoStore'.isLoading
            /\ todoStore'.todos = todoStore.todos
      /\ ResumeStep("user", "fetchUsers") /\ Head(micro).thrown
         => /\ userStore'.error # Absent
            /\ ~userStore'.isLoading
            /\ userStore'.users = userStore.users
    ]_vars

\* the reload after a switch to the remote source has failed: the store
\* still shows the tasks of the simulated source
C20_Witness ==
  /\ last.op = "fetchTodos.then"
  /\ todoStore.dataSource = "graphql"
  /\ todoStore.repository.kind = "graphql"
  /\ todoStore.error # Absent
  /\ ~todoStore.isLoading
  /\ todoStore.todos # <<>>
  /\ todoStore.todos = todoRepo.todos

-----------------------------------------------------------------------------
(* Properties of the data sources, checked under SpecStore *)

\* the fetch that changeDataSource made on the store's simulated repository,
\* after the store had been away on the remote source, resumes
BackFromRemote(store, name, act) ==
  /\ ResumeStep(name, act)
  /\ ~Head(micro).thrown
  /\ Head(micro).from.switch
  /\ Head(micro).from.repository = store.repository
  /\ store.repository.kind = "mock"
  /\ store.repository.left # <<>>

\* C21: a store that goes from the simulated source to the remote one and
\* back, each switch made with nothing in flight, ends with the list the
\* slot of the simulated source held before the first switch, whatever the
\* remote source answered in between.
C21_BackOnSimulatedShowsPersisted ==
  [][ /\ BackFromRemote(todoStore, "todo", "fetchTodos")
         => todoStore'.todos
              = MockTodo_loadFromLocalStorage(Get(todoStore.repository.left))
      /\ BackFromRemote(userStore, "user", "fetchUsers")
         => userStore'.users
              = MockUser_loadFromLocalStorage(Get(userStore.repository.left)).users
    ]_vars

\* the task store is back on the simulated source after a task was created
\* there, the store went to the remote source and the remote source answered
C21_Witness ==
  /\ last.op = "fetchTodos.then"
  /\ todoStore.repository.kind = "mock"
  /\ todoStore.repository.left # <<>>
  /\ Len(todoStore.todos) = 1
  /\ todoStore.todos = todoRepo.todos
  /\ clock = 4

\* the actions of the two stores, by the name the event gives them
TodoActions ==
  {"fetchTodos", "addTodo", "updateTodo", "deleteTodo", "toggleTodoComplete",
   "changeTodoDataSource"}

UserActions ==
  {"fetchUsers", "getUserById", "addUser", "updateUser", "deleteUser", "selectUser",
   "changeUserDataSource"}

\* C22: every store action clears the store's error when it starts, and the
\* error stays none until the catch of an action that failed sets it.
C22_ErrorClearedWhenActionStarts ==
  [][ /\ (\E op \in TodoActions : Step(op)) => todoStore'.error = Absent
      /\ (\E op \in UserActions : Step(op)) => userStore'.error = Absent
      /\ todoStore.error = Absent /\ todoStore'.error # Absent
         => \E act \in TodoActions : ResumeStep("todo", act) /\ Head(micro).thrown
      /\ userStore.error = Absent /\ userStore'.error # Absent
         => \E act \in UserActions : ResumeStep("user", act) /\ Head(micro).thrown
    ]_vars

-----------------------------------------------------------------------------
(* Properties of construction, checked under SpecLoad *)

\* the slot holds the text of an array
Readable(slot) == slot # Absent /\ IsArray(Get(slot))

\* C23: a simulated adapter constructed over a slot that is absent or holds
\* a text that is not a collection has an empty collection and its id
\* counter at 1, and no create, update or delete on it raises.
C23_UnreadableSlotGivesEmptyAdapter ==
  /\ last.op \in {"none", "newTodoRepo"} /\ ~Readable(todoSlot)
     => todoRepo.todos = <<>> /\ todoRepo.nextId = 1
  /\ last.op \in {"none", "newUserRepo"} /\ ~Readable(userSlot)
     => userRepo.users = <<>> /\ userRepo.nextId = 1
  /\ last.ret # Some(TypeError)

-----------------------------------------------------------------------------
(* Properties of store actions awaiting at once, checked under SpecRace *)

Creates == {"addTodo", "addUser"}
Updates == {"updateTodo", "toggleTodoComplete", "updateUser"}
Deletes == {"deleteTodo", "deleteUser"}

\* the list a mutating action that got the answer `c` makes of `list`
Written(c, list) ==
  IF c.act \in Creates THEN Append(list, Get(c.value))
  ELSE IF c.act \in Updates
  THEN IF c.value = Absent THEN list ELSE ReplaceById(list, Get(c.value))
  ELSE IF c.ok THEN FilterOutId(list, c.id) ELSE list

\* a mutating action of the store resumes with what its repository returned
Completes(store) ==
  /\ micro # <<>>
  /\ Head(micro).store = store
  /\ Head(micro).act \in Creates \cup Updates \cup Deletes
  /\ ~Head(micro).thrown
  /\ micro' = Tail(micro)

Awaiting(store) ==
  \/ \E i \in 1..Len(net) : net[i].store = store
  \/ store = "user" /\ timers # <<>>

\* C25: while an action of a store is awaiting its repository call, the
\* store's loading flag is true, however the actions started at once
\* complete.
C25_LoadingWhileAwaiting ==
  /\ Awaiting("todo") => todoStore.isLoading
  /\ Awaiting("user") => userStore.isLoading

\* a create of the store resumes, on the repository the store has, with an
\* entity whose id was not in the list when the action started
CreatesNew(store) ==
  /\ Completes(store)
  /\ Head(micro).act \in Creates
  /\ Head(micro).from.repository =
       IF store = "todo" THEN todoStore.repository ELSE userStore.repository
  /\ Get(Head(micro).value).id \notin Ids(Head(micro).from.seen)

\* the entries of the list that have the id
Listed(list, id) == {i \in 1..Len(list) : list[i].id = id}

\* C26: the list of a store never has two entries with the same id, in
\* whatever order the answers to a fetch and a create of the store arrive:
\* a created entity that a fetched list has brought already is not appended
\* a second time.
C26_CreatedEntityIsListedOnce ==
  [][ /\ CreatesNew("todo")
         => Cardinality(Listed(todoStore'.todos, Get(Head(micro).value).id)) = 1
      /\ CreatesNew("user")
         => Cardinality(Listed(userStore'.users, Get(Head(micro).value).id)) = 1
    ]_vars

\* the repository of the store
RepositoryOf(store) ==
  IF store = "todo" THEN todoStore.repository ELSE userStore.repository

\* the fetch that changeDataSource started on the repository of the store is
\* over: none of the actions awaiting or waiting to resume is that fetch
SwitchFetched(store) ==
  LET switch(e) == e.from.switch /\ e.from.repository = RepositoryOf(store)
  IN /\ \A i \in 1..Len(timers) : ~switch(timers[i])
     /\ \A i \in 1..Len(net) : ~switch(net[i])
     /\ \A i \in 1..Len(micro) : ~switch(micro[i])

\* an action of the store resumes after its await, on a repository that
\* changeDataSource has replaced in the meantime, when the list is the one
\* of the new repository
ResumesLate(store) ==
  /\ micro # <<>>
  /\ Head(micro).store = store
  /\ micro' = Tail(micro)
  /\ Head(micro).from.repository # RepositoryOf(store)
  /\ SwitchFetched(store)

\* C27: once the store shows the list of the repository that changeDataSource
\* has put in place, the answer to a call that was awaiting on the replaced
\* repository neither overwrites nor extends that list.
C27_LateAnswerLeavesListAlone ==
  [][ /\ ResumesLate("todo") => todoStore'.todos = todoStore.todos
      /\ ResumesLate("user") => userStore'.users = userStore.users
    ]_vars

\* the ids a MockUserRepository has handed out
Handed(repo) == {repo.handed[i] : i \in 1..Len(repo.handed)}

\* C28: a MockUserRepository that changeDataSource has replaced writes the
\* slot no more: when nothing is awaiting, the slot holds the collection of
\* the MockUserRepository the store has, which has handed out no id that a
\* replaced one has handed out.
C28_ReplacedInstanceWritesNothing ==
  Quiescent /\ userStore.repository.kind = "mock"
    => /\ PersistedUsers = userRepo.users
       /\ \A k \in 1..Len(replaced) : Handed(replaced[k]) \cap Handed(userRepo) = {}

-----------------------------------------------------------------------------
(* Properties of the data-source page, checked under SpecSelector *)

\* C29: whatever is chosen on the data-source page, the task store and the
\* user store have the same dataSource, and each holds a repository of that
\* kind.
C29_StoresOnTheSameSource ==
  /\ todoStore.dataSource = userStore.dataSource
  /\ todoStore.repository.kind = todoStore.dataSource
  /\ userStore.repository.kind = userStore.dataSource

-----------------------------------------------------------------------------
(* The store and its simulated repository, checked under SpecStore *)

\* C30: with the store actions run one at a time on the simulated source,
\* after every create, update, delete and toggleComplete the list of the
\* store is what the repository lists: the same entities with the same
\* values in the same order, also on a repository that was constructed over
\* a slot holding a collection.
C30_StoreListIsRepositoryList ==
  /\ /\ last.op \in {"addTodo.then", "updateTodo.then", "deleteTodo.then",
                     "toggleTodoComplete.then"}
     /\ todoStore.repository.kind = "mock"
     => todoStore.todos = MockTodo_getTodos(todoRepo)
  /\ /\ last.op \in {"addUser.then", "updateUser.then", "deleteUser.then"}
     /\ userStore.repository.kind = "mock"
     => userStore.users = MockUser_getUsers(userRepo)

====
